---- MODULE Spec2Model ----
(***************************************************************************)
(* owperf.js: one coordinator (master, cluster id 0) and workers-1 forked  *)
(* worker processes.  Every process runs mainLoop, then postProcess; the   *)
(* master owns the three countdown barriers checkInit, checkSummary and    *)
(* checkExit.  One action of this module is one turn of a process's event  *)
(* loop: a callback together with the promise continuations it releases.   *)
(* Time is the integer millisecond clock read by new Date().getTime().     *)
(***************************************************************************)
EXTENDS Integers, Sequences, FiniteSets, TLC

\* ---- bounds of the model ----
MaxWorkers == 2
MaxWarmup == 1
MaxIterations == 1
MaxPeriod == 1
MaxDelta == 2
MaxRatio == 2
MaxTime == 4
MaxLoops == 1
MaxLoad == 3
MaxSamples == 2
MaxValues == 3
MaxValue == 2

\* ---- values of the program ----
Undefined == -1000
Unset == -1
Master == 0
T0 == 1
StaggerUnit == 1
kACTION == "action"
kRULE == "rule"
kNONE == "none"
kRESULT == "result"
kSetupFailure == -2
kTeardownFailure == -3
kSqlRetries == 50
Epoch == 1000

VARIABLES input, now, procs, toMaster, toWorker, exitEvents

vars == <<input, now, procs, toMaster, toWorker, exitEvents>>

Procs == 0 .. (input.workers - 1)
Workers == 1 .. (input.workers - 1)

\* ---- JavaScript value semantics ----
Truthy(x) == x # Undefined /\ x # 0
JsLt(a, b) == a # Undefined /\ b # Undefined /\ a < b
JsGt(a, b) == a # Undefined /\ b # Undefined /\ a > b
JsGe(a, b) == a # Undefined /\ b # Undefined /\ a >= b
JsLe(a, b) == a # Undefined /\ b # Undefined /\ a <= b

Metrics == {"ta", "oea", "oer", "d", "ad", "ora", "rtt", "ortt"}

tpCounters == [attempts |-> 0, invocations |-> 0, activations |-> 0, requests |-> 0, errors |-> 0]

latCounters == [m \in Metrics |-> [sum |-> Undefined, sumSqr |-> Undefined, min |-> Undefined, max |-> Undefined]]

measurementTime == [start |-> Unset, stop |-> Unset]

activity(p) == input.activity

doBlocking(p) == input.blocking # kNONE

delta(p) == input.delta

\* Samples one loop iteration yields: ratio for actions, one trigger for rules
perIteration(p) == IF activity(p) = kACTION THEN input.ratio ELSE 1

\* The configurations drawn from the command line; one of iterations and
\* period is set (0 stands for an option that was not given), and the
\* number of processes and the burst width are bounded together; blocking
\* invocations are made by single-process runs
Inputs ==
    { i \in [workers : 1 .. MaxWorkers, warmup : 0 .. MaxWarmup,
             iterations : 0 .. MaxIterations, period : 0 .. MaxPeriod,
             ratio : 1 .. MaxRatio, delta : 1 .. MaxDelta, pp_delay : {1},
             activity : {kACTION, kRULE}, blocking : {kNONE, kRESULT}] :
        /\ i.iterations > 0 \/ i.period > 0
        /\ i.workers + i.ratio <= MaxLoad
        /\ i.blocking # kNONE => i.workers = 1
        /\ i.activity = kRULE => i.blocking = kNONE }

\* The script's module-level state in one process, and where its code stands
InitProc(p) ==
    [ pc |-> "starting",
      warmupCounter |-> input.warmup,
      abort |-> FALSE,
      loopSleeper |-> <<>>,
      si |-> Undefined,
      measurementTime |-> measurementTime,
      sampleData |-> <<>>,
      tpCounters |-> tpCounters,
      latCounters |-> latCounters,
      remainingInits |-> input.workers,
      remainingIterations |-> -1,
      remainingExits |-> input.workers,
      remainingSummaries |-> input.workers,
      workerData |-> [q \in 0 .. (input.workers - 1) |-> <<>>],
      periodTimer |-> <<>>,
      wake |-> Undefined,
      ppIndex |-> 1,
      actionSamples |-> <<>>,
      outbox |-> <<>>,
      \* history of the run, read by the properties only
      iterationsStarted |-> 0,
      abortCalls |-> 0,
      startStamps |-> 0,
      initAt |-> Undefined,
      readyReports |-> 0,
      readyAt |-> <<>>,
      stopStamps |-> 0,
      wokenByAbort |-> FALSE,
      loopEnd |-> Undefined,
      ppStart |-> Undefined,
      computed |-> 0,
      aggregatedFrom |-> Undefined,
      generated |-> 0,
      exitsCounted |-> {},
      ownExitCounted |-> FALSE,
      admitted |-> {},
      ppFailedAt |-> Undefined,
      failedFetch |-> <<>>,
      classified |-> <<>>,
      expansion |-> <<>>,
      firstRun |-> <<>>,
      output |-> <<>>,
      contributed |-> <<>>,
      forked |-> FALSE,
      outstanding |-> 0,
      sql |-> <<>>,
      sqlLog |-> <<>>,
      exitCode |-> Undefined,
      killed |-> FALSE ]

Init ==
    /\ input \in Inputs
    /\ now = T0
    /\ procs = [p \in Procs |-> InitProc(p)]
    /\ toMaster = [w \in Workers |-> <<>>]
    /\ toWorker = [w \in Workers |-> <<>>]
    /\ exitEvents = {}


\* ---- the coordinator's barriers ----

abortLoop_noResolve(s) ==
    [s EXCEPT !.abort = TRUE, !.abortCalls = @ + 1]

\* Used to abort mainLoop: the flag, and the pending pacing sleep resolved
abortLoop(s) ==
    [s EXCEPT !.abort = TRUE,
              !.loopSleeper = IF @ # <<>> THEN <<[@[1] EXCEPT !.settled = TRUE]>> ELSE @,
              !.abortCalls = @ + 1]

checkInit_early(s, t) ==
    LET r == s.remainingInits - 1 IN
    IF r <= 1
    THEN [s EXCEPT !.remainingInits = r,
                   !.measurementTime.start = t,
                   !.startStamps = @ + 1,
                   !.initAt = s.iterationsStarted,
                   !.periodTimer = IF input.period # 0 THEN <<t + input.period>> ELSE @,
                   !.remainingIterations = IF input.iterations # 0 THEN input.iterations ELSE @]
    ELSE [s EXCEPT !.remainingInits = r]

checkInit_armFirst(s, t) ==
    LET r == s.remainingInits - 1
        armed == [s EXCEPT !.remainingInits = r,
                           !.periodTimer = IF input.period # 0 /\ @ = <<>>
                                           THEN <<t + input.period>> ELSE @,
                           !.remainingIterations = IF input.iterations # 0 /\ @ = -1
                                                   THEN input.iterations ELSE @]
    IN IF r = 0
       THEN [armed EXCEPT !.measurementTime.start = t,
                          !.startStamps = @ + 1,
                          !.initAt = s.iterationsStarted]
       ELSE armed

\* Init barrier: at zero the measurement starts, the period timer is set and
\* the iteration countdown is armed
checkInit(s, t) ==
    LET r == s.remainingInits - 1 IN
    IF r = 0
    THEN [s EXCEPT !.remainingInits = r,
                   !.measurementTime.start = t,
                   !.startStamps = @ + 1,
                   !.initAt = s.iterationsStarted,
                   !.periodTimer = IF input.period # 0 THEN <<t + input.period>> ELSE @,
                   !.remainingIterations = IF input.iterations # 0 THEN input.iterations ELSE @]
    ELSE [s EXCEPT !.remainingInits = r]

\* generateOutput, then testTeardown, whose completion ends the process
generateOutput(s) == [s EXCEPT !.generated = @ + 1, !.pc = "teardown"]

checkExit_early(s) ==
    LET r == s.remainingExits - 1 IN
    IF r <= 1
    THEN generateOutput([s EXCEPT !.remainingExits = r])
    ELSE [s EXCEPT !.remainingExits = r]

\* Exit barrier
checkExit(s) ==
    LET r == s.remainingExits - 1 IN
    IF r = 0
    THEN generateOutput([s EXCEPT !.remainingExits = r])
    ELSE [s EXCEPT !.remainingExits = r]

\* The aggregate is computed from the summaries workerData holds at that time
computeOutputRecord(s) ==
    [s EXCEPT !.computed = @ + 1,
              !.aggregatedFrom = Cardinality({q \in DOMAIN s.workerData : s.workerData[q] # <<>>})]

checkSummary_early(s) ==
    LET r == s.remainingSummaries - 1 IN
    IF r <= 1
    THEN [checkExit(computeOutputRecord([s EXCEPT !.remainingSummaries = r]))
            EXCEPT !.ownExitCounted = TRUE]
    ELSE [s EXCEPT !.remainingSummaries = r]

checkSummary_each(s) ==
    LET r == s.remainingSummaries - 1 IN
    IF r = 0 \/ s.workerData[0] # <<>>
    THEN [checkExit(computeOutputRecord([s EXCEPT !.remainingSummaries = r]))
            EXCEPT !.ownExitCounted = TRUE]
    ELSE [s EXCEPT !.remainingSummaries = r]

\* Summary barrier
checkSummary(s) ==
    LET r == s.remainingSummaries - 1 IN
    IF r = 0
    THEN [checkExit(computeOutputRecord([s EXCEPT !.remainingSummaries = r]))
            EXCEPT !.ownExitCounted = TRUE]
    ELSE [s EXCEPT !.remainingSummaries = r]

\* ---- the invocation loop ----

NoSample == [bi |-> Undefined, ai |-> Undefined, aaid |-> Undefined, aaidError |-> Undefined,
             taid |-> Undefined, taidError |-> Undefined, ts |-> Undefined]

\* The samples of one burst: ok[i] tells whether invocation i succeeded, ais[i]
\* is the time its response arrived
invokeActions(count, blocking, bi, ok, ais) ==
    [i \in 1 .. count |->
        IF ok[i]
        THEN [NoSample EXCEPT !.aaid = 1, !.bi = bi,
                              !.ai = IF blocking THEN ais[i] ELSE Undefined]
        ELSE [NoSample EXCEPT !.aaidError = 1]]

\* The single sample of one trigger firing
invokeRules(bi, ok) ==
    IF ok THEN <<[NoSample EXCEPT !.taid = 1, !.bi = bi]>>
    ELSE <<[NoSample EXCEPT !.taidError = 1]>>

runAfterLoop_sendFirst(s, p, t) ==
    IF p = Master
    THEN [s EXCEPT !.outbox = Append(@, [abort |-> s.measurementTime]),
                   !.measurementTime.stop = t,
                   !.stopStamps = @ + 1,
                   !.pc = "pp_delay", !.wake = t + input.pp_delay, !.loopEnd = t]
    ELSE [s EXCEPT !.pc = "pp_delay", !.wake = t + input.pp_delay, !.loopEnd = t]

\* What follows mainLoop's return: the master stamps stop and broadcasts the
\* window; every process then sleeps pp_delay
runAfterLoop(s, p, t) ==
    IF p = Master
    THEN LET mt == [s.measurementTime EXCEPT !.stop = t] IN
         [s EXCEPT !.measurementTime = mt,
                   !.stopStamps = @ + 1,
                   !.outbox = Append(@, [abort |-> mt]),
                   !.pc = "pp_delay", !.wake = t + input.pp_delay, !.loopEnd = t]
    ELSE [s EXCEPT !.pc = "pp_delay", !.wake = t + input.pp_delay, !.loopEnd = t]

\* The report of process p to the init barrier
ready(s, p, t) ==
    LET s1 == [s EXCEPT !.readyReports = @ + 1,
                        !.readyAt = <<[started |-> s.iterationsStarted,
                                       stored |-> Len(s.sampleData)]>>]
    IN IF p = Master THEN checkInit(s1, t)
       ELSE [s1 EXCEPT !.outbox = Append(@, [init |-> 1, summary |-> <<>>])]

reportReady_again(s, p, t) ==
    IF s.warmupCounter <= 0 THEN ready(s, p, t) ELSE s

\* Pass init after warmup iterations: the master counts itself, a worker
\* sends its init message
reportReady(s, p, t) ==
    IF s.warmupCounter = 0 THEN ready(s, p, t) ELSE s

mainLoop_noAbortTest(s, p, t) ==
    LET s1 == reportReady(s, p, t)
        s2 == [s1 EXCEPT !.warmupCounter = IF @ >= 0 THEN @ - 1 ELSE @]
    IN IF s2.remainingIterations = 0
       THEN runAfterLoop(abortLoop(s2), p, t)
       ELSE [s2 EXCEPT !.remainingIterations = IF @ > 0 THEN @ - 1 ELSE @,
                       !.si = t, !.pc = "invoking",
                       !.iterationsStarted = @ + 1]

mainLoop_decrementFirst(s, p, t) ==
    IF s.abort THEN runAfterLoop(s, p, t)
    ELSE
      LET s1 == reportReady(s, p, t)
          s2 == [s1 EXCEPT !.warmupCounter = IF @ >= 0 THEN @ - 1 ELSE @,
                           !.remainingIterations = IF @ > 0 THEN @ - 1 ELSE @]
      IN IF s2.remainingIterations = 0
         THEN runAfterLoop(abortLoop(s2), p, t)
         ELSE [s2 EXCEPT !.si = t, !.pc = "invoking",
                         !.iterationsStarted = @ + 1]

\* mainLoop from the test of its while condition to the invocations it awaits
mainLoop(s, p, t) ==
    IF s.abort THEN runAfterLoop(s, p, t)
    ELSE
      LET s1 == reportReady(s, p, t)
          s2 == [s1 EXCEPT !.warmupCounter = IF @ >= 0 THEN @ - 1 ELSE @]
      IN IF s2.remainingIterations = 0
         THEN runAfterLoop(abortLoop(s2), p, t)
         ELSE [s2 EXCEPT !.remainingIterations = IF @ > 0 THEN @ - 1 ELSE @,
                         !.si = t, !.pc = "invoking",
                         !.iterationsStarted = @ + 1]

mainLoopResume_first(s, p, t, samples) ==
    LET s1 == [s EXCEPT !.sampleData = Append(@, samples[1]), !.si = Undefined]
        duration == t - s.si
    IN IF delta(p) > duration
       THEN LET s2 == [s1 EXCEPT !.loopSleeper = <<[due |-> t + (delta(p) - duration), settled |-> FALSE]>>]
            IN IF ~s2.abort THEN [s2 EXCEPT !.pc = "sleeping"]
               ELSE mainLoop(s2, p, t)
       ELSE mainLoop(s1, p, t)

mainLoopResume_stopOnError(s, p, t, samples) ==
    LET s1 == [s EXCEPT !.sampleData = @ \o samples, !.si = Undefined]
        duration == t - s.si
    IN IF \E i \in 1 .. Len(samples) :
             Truthy(samples[i].aaidError) \/ Truthy(samples[i].taidError)
       THEN runAfterLoop(s1, p, t)
       ELSE IF delta(p) > duration
       THEN LET s2 == [s1 EXCEPT !.loopSleeper = <<[due |-> t + (delta(p) - duration), settled |-> FALSE]>>]
            IN IF ~s2.abort THEN [s2 EXCEPT !.pc = "sleeping"]
               ELSE mainLoop(s2, p, t)
       ELSE mainLoop(s1, p, t)

\* mainLoop from the return of the invocations: samples stored, then the
\* pacing sleep unless abort was set meanwhile, then the next iteration
mainLoopResume(s, p, t, samples) ==
    LET s1 == [s EXCEPT !.sampleData = @ \o samples, !.si = Undefined]
        duration == t - s.si
    IN IF delta(p) > duration
       THEN LET s2 == [s1 EXCEPT !.loopSleeper = <<[due |-> t + (delta(p) - duration), settled |-> FALSE]>>]
            IN IF ~s2.abort THEN [s2 EXCEPT !.pc = "sleeping"]
               ELSE mainLoop(s2, p, t)
       ELSE mainLoop(s1, p, t)

\* The continuation of a settled pacing sleep
resume(s, p, t) ==
    IF s.pc = "sleeping" /\ s.loopSleeper # <<>> /\ s.loopSleeper[1].settled
    THEN mainLoop([s EXCEPT !.wokenByAbort = @ \/ s.abort], p, t)
    ELSE s

\* ---- a turn of the event loop: state stored, messages sent, exit notified ----
Turn(p, s) ==
    /\ procs' = [procs EXCEPT ![p] = [s EXCEPT !.outbox = <<>>]]
    /\ IF p = Master
       THEN /\ toWorker' = [w \in Workers |->
                              IF procs[w].pc = "exited" THEN toWorker[w]
                              ELSE toWorker[w] \o s.outbox]
            /\ UNCHANGED <<toMaster, exitEvents>>
       ELSE /\ toMaster' = [toMaster EXCEPT ![p] = @ \o s.outbox]
            /\ exitEvents' = IF s.pc = "exited" THEN exitEvents \cup {p} ELSE exitEvents
            /\ UNCHANGED toWorker
    /\ UNCHANGED <<input, now>>

Alive(p) == procs[p].pc # "exited"

\* runMaster, once testSetup is through, forks the workers and reaches
\* mainLoop; runWorker reaches mainLoop in a worker that was forked
Start(p) ==
    /\ procs[p].pc = "starting"
    /\ p # Master => procs[Master].forked
    /\ Turn(p, mainLoop([procs[p] EXCEPT !.forked = (p = Master)], p, now))

SetupFail_goOn ==
    /\ procs[Master].pc = "starting"
    /\ Turn(Master, mainLoop([procs[Master] EXCEPT !.forked = TRUE,
                                                   !.exitCode = kSetupFailure], Master, now))

\* testSetup is configured and its command fails: process.exit(-2)
SetupFail ==
    /\ procs[Master].pc = "starting"
    /\ Turn(Master, [procs[Master] EXCEPT !.pc = "exited", !.exitCode = kSetupFailure])

\* The bound of the model on the iterations a process completes while no
\* stop condition is armed for it: its warmup, and MaxLoops in all
MayComplete(p) ==
    \/ procs[p].abort
    \/ procs[p].remainingIterations >= 0
    \/ Len(procs[p].sampleData) < input.warmup * perIteration(p)
    \/ Len(procs[p].sampleData) < MaxLoops * perIteration(p)

\* All invocations of the iteration in flight have returned
InvocationsReturn(p) ==
    /\ procs[p].pc = "invoking"
    /\ MayComplete(p)
    /\ IF activity(p) = kACTION
       THEN \E ok \in [1 .. input.ratio -> BOOLEAN] :
            \E ais \in [1 .. input.ratio -> IF doBlocking(p) THEN procs[p].si .. now ELSE {now}] :
               /\ \E i \in 1 .. input.ratio : ais[i] = now
               /\ Turn(p, mainLoopResume(procs[p], p, now,
                          invokeActions(input.ratio, doBlocking(p), procs[p].si, ok, ais)))
       ELSE \E ok \in BOOLEAN :
               Turn(p, mainLoopResume(procs[p], p, now, invokeRules(procs[p].si, ok)))

\* The timer of the pacing sleep fires
SleepTimer(p) ==
    /\ procs[p].pc = "sleeping"
    /\ ~procs[p].loopSleeper[1].settled
    /\ now >= procs[p].loopSleeper[1].due
    /\ Turn(p, resume([procs[p] EXCEPT !.loopSleeper = <<[due |-> 0, settled |-> TRUE]>>], p, now))

PeriodTimer_interval ==
    /\ Alive(Master)
    /\ procs[Master].periodTimer # <<>>
    /\ now >= procs[Master].periodTimer[1]
    /\ Turn(Master, resume(abortLoop(procs[Master]), Master, now))

\* setTimeout(abortLoop, period) fires at the master
PeriodTimer ==
    /\ Alive(Master)
    /\ procs[Master].periodTimer # <<>>
    /\ now >= procs[Master].periodTimer[1]
    /\ Turn(Master, resume(abortLoop([procs[Master] EXCEPT !.periodTimer = <<>>]), Master, now))

AbortMessage_noWindow(w) ==
    /\ Alive(w)
    /\ toWorker[w] # <<>>
    /\ procs' = [procs EXCEPT ![w] = resume(abortLoop(procs[w]), w, now)]
    /\ toWorker' = [toWorker EXCEPT ![w] = Tail(@)]
    /\ UNCHANGED <<input, now, toMaster, exitEvents>>

\* A worker's handler of the master's abort message
AbortMessage(w) ==
    /\ Alive(w)
    /\ toWorker[w] # <<>>
    /\ LET msg == Head(toWorker[w])
           s1 == [procs[w] EXCEPT !.measurementTime.start = msg.abort.start,
                                  !.measurementTime.stop = msg.abort.stop]
       IN /\ procs' = [procs EXCEPT ![w] = resume(abortLoop(s1), w, now)]
          /\ toWorker' = [toWorker EXCEPT ![w] = Tail(@)]
    /\ UNCHANGED <<input, now, toMaster, exitEvents>>

\* The clock advances, as far as the model follows it
Tick ==
    /\ now < MaxTime
    /\ now' = now + 1
    /\ UNCHANGED <<input, procs, toMaster, toWorker, exitEvents>>


\* ---- post-processing ----

updateLatSample_noSkip(lat, statName, value) ==
    LET c == lat[statName]
        sum == IF ~Truthy(c.sum) THEN 0 ELSE c.sum
        sumSqr == IF ~Truthy(c.sumSqr) THEN 0 ELSE c.sumSqr
    IN [lat EXCEPT ![statName] =
          [sum |-> sum + value,
           sumSqr |-> sumSqr + value * value,
           min |-> IF ~Truthy(c.min) \/ c.min > value THEN value ELSE c.min,
           max |-> IF ~Truthy(c.max) \/ c.max < value THEN value ELSE c.max]]

\* Update counters of one latency statistic with the value of one sample
updateLatSample(lat, statName, value) ==
    IF ~Truthy(value) THEN lat
    ELSE LET c == lat[statName]
             sum == IF ~Truthy(c.sum) THEN 0 ELSE c.sum
             sumSqr == IF ~Truthy(c.sumSqr) THEN 0 ELSE c.sumSqr
         IN [lat EXCEPT ![statName] =
               [sum |-> sum + value,
                sumSqr |-> sumSqr + value * value,
                min |-> IF ~Truthy(c.min) \/ c.min > value THEN value ELSE c.min,
                max |-> IF ~Truthy(c.max) \/ c.max < value THEN value ELSE c.max]]

processSample_missingIsError(s, sample, activation) ==
    LET mt == s.measurementTime
        bi == sample.bi
    IN
    IF JsLt(bi, mt.start) \/ JsGt(bi, mt.stop) THEN s
    ELSE
    LET s1 == [s EXCEPT !.tpCounters.attempts = @ + 1, !.admitted = @ \cup {bi}] IN
    IF Truthy(sample.taidError)
    THEN [s1 EXCEPT !.tpCounters.requests = @ + 1, !.tpCounters.errors = @ + 1]
    ELSE
    LET ts == IF Truthy(sample.ts) THEN sample.ts ELSE Undefined
        s2 == IF Truthy(sample.ts) /\ JsGe(ts, mt.start) /\ JsLe(ts, mt.stop)
              THEN [s1 EXCEPT !.tpCounters.activations = @ + 1, !.tpCounters.requests = @ + 1]
              ELSE s1
    IN
    IF Truthy(sample.aaidError)
    THEN [s2 EXCEPT !.tpCounters.requests = @ + 1, !.tpCounters.errors = @ + 1]
    ELSE IF activation = <<>>
    THEN [s2 EXCEPT !.tpCounters.requests = @ + 1, !.tpCounters.errors = @ + 1]
    ELSE
    LET as == activation[1].start
        ae == activation[1].end
        d == activation[1].duration
    IN
    IF JsLt(as, mt.start) \/ JsGt(ae, mt.stop) THEN s2
    ELSE
    LET ta == IF Truthy(ts) THEN as - ts ELSE Undefined
        ad == ae - as
        oea == as - bi
        oer == ae - bi - d
        ai == sample.ai
        ora == IF Truthy(ai) THEN ai - ae ELSE Undefined
        rtt == IF Truthy(ai) THEN ai - bi ELSE Undefined
        ortt == IF Truthy(rtt) THEN rtt - d ELSE Undefined
        l1 == updateLatSample(s2.latCounters, "d", d)
        l2 == updateLatSample(l1, "ta", ta)
        l3 == updateLatSample(l2, "ad", ad)
        l4 == updateLatSample(l3, "oea", oea)
        l5 == updateLatSample(l4, "oer", oer)
        l6 == updateLatSample(l5, "ora", ora)
        l7 == updateLatSample(l6, "rtt", rtt)
        l8 == updateLatSample(l7, "ortt", ortt)
    IN [s2 EXCEPT !.tpCounters.activations = @ + 1,
                  !.tpCounters.requests = @ + 1,
                  !.tpCounters.invocations = @ + 1,
                  !.latCounters = l8]

processSample_oneRequest(s, sample, activation) ==
    LET mt == s.measurementTime
        bi == sample.bi
    IN
    IF JsLt(bi, mt.start) \/ JsGt(bi, mt.stop) THEN s
    ELSE
    LET s1 == [s EXCEPT !.tpCounters.attempts = @ + 1, !.admitted = @ \cup {bi}] IN
    IF Truthy(sample.taidError)
    THEN [s1 EXCEPT !.tpCounters.requests = @ + 1, !.tpCounters.errors = @ + 1]
    ELSE
    LET ts == IF Truthy(sample.ts) THEN sample.ts ELSE Undefined
        s2 == IF Truthy(sample.ts) /\ JsGe(ts, mt.start) /\ JsLe(ts, mt.stop)
              THEN [s1 EXCEPT !.tpCounters.activations = @ + 1]
              ELSE s1
    IN
    IF Truthy(sample.aaidError)
    THEN [s2 EXCEPT !.tpCounters.requests = @ + 1, !.tpCounters.errors = @ + 1]
    ELSE IF activation = <<>> THEN s2
    ELSE
    LET as == activation[1].start
        ae == activation[1].end
        d == activation[1].duration
    IN
    IF JsLt(as, mt.start) \/ JsGt(ae, mt.stop) THEN s2
    ELSE
    LET ta == IF Truthy(ts) THEN as - ts ELSE Undefined
        ad == ae - as
        oea == as - bi
        oer == ae - bi - d
        ai == sample.ai
        ora == IF Truthy(ai) THEN ai - ae ELSE Undefined
        rtt == IF Truthy(ai) THEN ai - bi ELSE Undefined
        ortt == IF Truthy(rtt) THEN rtt - d ELSE Undefined
        l1 == updateLatSample(s2.latCounters, "d", d)
        l2 == updateLatSample(l1, "ta", ta)
        l3 == updateLatSample(l2, "ad", ad)
        l4 == updateLatSample(l3, "oea", oea)
        l5 == updateLatSample(l4, "oer", oer)
        l6 == updateLatSample(l5, "ora", ora)
        l7 == updateLatSample(l6, "rtt", rtt)
        l8 == updateLatSample(l7, "ortt", ortt)
    IN [s2 EXCEPT !.tpCounters.activations = @ + 1,
                  !.tpCounters.requests = @ + 1,
                  !.tpCounters.invocations = @ + 1,
                  !.latCounters = l8]

processSample_startOnly(s, sample, activation) ==
    LET mt == s.measurementTime
        bi == sample.bi
    IN
    IF JsLt(bi, mt.start) \/ JsGt(bi, mt.stop) THEN s
    ELSE
    LET s1 == [s EXCEPT !.tpCounters.attempts = @ + 1, !.admitted = @ \cup {bi}] IN
    IF Truthy(sample.taidError)
    THEN [s1 EXCEPT !.tpCounters.requests = @ + 1, !.tpCounters.errors = @ + 1]
    ELSE
    LET ts == IF Truthy(sample.ts) THEN sample.ts ELSE Undefined
        s2 == IF Truthy(sample.ts) /\ JsGe(ts, mt.start) /\ JsLe(ts, mt.stop)
              THEN [s1 EXCEPT !.tpCounters.activations = @ + 1, !.tpCounters.requests = @ + 1]
              ELSE s1
    IN
    IF Truthy(sample.aaidError)
    THEN [s2 EXCEPT !.tpCounters.requests = @ + 1, !.tpCounters.errors = @ + 1]
    ELSE IF activation = <<>> THEN s2
    ELSE
    LET as == activation[1].start
        ae == activation[1].end
        d == activation[1].duration
    IN
    IF JsLt(as, mt.start) THEN s2
    ELSE
    LET ta == IF Truthy(ts) THEN as - ts ELSE Undefined
        ad == ae - as
        oea == as - bi
        oer == ae - bi - d
        ai == sample.ai
        ora == IF Truthy(ai) THEN ai - ae ELSE Undefined
        rtt == IF Truthy(ai) THEN ai - bi ELSE Undefined
        ortt == IF Truthy(rtt) THEN rtt - d ELSE Undefined
        l1 == updateLatSample(s2.latCounters, "d", d)
        l2 == updateLatSample(l1, "ta", ta)
        l3 == updateLatSample(l2, "ad", ad)
        l4 == updateLatSample(l3, "oea", oea)
        l5 == updateLatSample(l4, "oer", oer)
        l6 == updateLatSample(l5, "ora", ora)
        l7 == updateLatSample(l6, "rtt", rtt)
        l8 == updateLatSample(l7, "ortt", ortt)
    IN [s2 EXCEPT !.tpCounters.activations = @ + 1,
                  !.tpCounters.requests = @ + 1,
                  !.tpCounters.invocations = @ + 1,
                  !.latCounters = l8]

processSample_startGate(s, sample, activation) ==
    LET mt == s.measurementTime
        bi == sample.bi
    IN
    IF JsLt(bi, mt.start) THEN s
    ELSE
    LET s1 == [s EXCEPT !.tpCounters.attempts = @ + 1, !.admitted = @ \cup {bi}] IN
    IF Truthy(sample.taidError)
    THEN [s1 EXCEPT !.tpCounters.requests = @ + 1, !.tpCounters.errors = @ + 1]
    ELSE
    LET ts == IF Truthy(sample.ts) THEN sample.ts ELSE Undefined
        s2 == IF Truthy(sample.ts) /\ JsGe(ts, mt.start) /\ JsLe(ts, mt.stop)
              THEN [s1 EXCEPT !.tpCounters.activations = @ + 1, !.tpCounters.requests = @ + 1]
              ELSE s1
    IN
    IF Truthy(sample.aaidError)
    THEN [s2 EXCEPT !.tpCounters.requests = @ + 1, !.tpCounters.errors = @ + 1]
    ELSE IF activation = <<>> THEN s2
    ELSE
    LET as == activation[1].start
        ae == activation[1].end
        d == activation[1].duration
    IN
    IF JsLt(as, mt.start) \/ JsGt(ae, mt.stop) THEN s2
    ELSE
    LET ta == IF Truthy(ts) THEN as - ts ELSE Undefined
        ad == ae - as
        oea == as - bi
        oer == ae - bi - d
        ai == sample.ai
        ora == IF Truthy(ai) THEN ai - ae ELSE Undefined
        rtt == IF Truthy(ai) THEN ai - bi ELSE Undefined
        ortt == IF Truthy(rtt) THEN rtt - d ELSE Undefined
        l1 == updateLatSample(s2.latCounters, "d", d)
        l2 == updateLatSample(l1, "ta", ta)
        l3 == updateLatSample(l2, "ad", ad)
        l4 == updateLatSample(l3, "oea", oea)
        l5 == updateLatSample(l4, "oer", oer)
        l6 == updateLatSample(l5, "ora", ora)
        l7 == updateLatSample(l6, "rtt", rtt)
        l8 == updateLatSample(l7, "ortt", ortt)
    IN [s2 EXCEPT !.tpCounters.activations = @ + 1,
                  !.tpCounters.requests = @ + 1,
                  !.tpCounters.invocations = @ + 1,
                  !.latCounters = l8]

processSample_errorNoRequest(s, sample, activation) ==
    LET mt == s.measurementTime
        bi == sample.bi
    IN
    IF JsLt(bi, mt.start) \/ JsGt(bi, mt.stop) THEN s
    ELSE
    LET s1 == [s EXCEPT !.tpCounters.attempts = @ + 1, !.admitted = @ \cup {bi}] IN
    IF Truthy(sample.taidError)
    THEN [s1 EXCEPT !.tpCounters.requests = @ + 1, !.tpCounters.errors = @ + 1]
    ELSE
    LET ts == IF Truthy(sample.ts) THEN sample.ts ELSE Undefined
        s2 == IF Truthy(sample.ts) /\ JsGe(ts, mt.start) /\ JsLe(ts, mt.stop)
              THEN [s1 EXCEPT !.tpCounters.activations = @ + 1, !.tpCounters.requests = @ + 1]
              ELSE s1
    IN
    IF Truthy(sample.aaidError)
    THEN [s2 EXCEPT !.tpCounters.errors = @ + 1]
    ELSE IF activation = <<>> THEN s2
    ELSE
    LET as == activation[1].start
        ae == activation[1].end
        d == activation[1].duration
    IN
    IF JsLt(as, mt.start) \/ JsGt(ae, mt.stop) THEN s2
    ELSE
    LET ta == IF Truthy(ts) THEN as - ts ELSE Undefined
        ad == ae - as
        oea == as - bi
        oer == ae - bi - d
        ai == sample.ai
        ora == IF Truthy(ai) THEN ai - ae ELSE Undefined
        rtt == IF Truthy(ai) THEN ai - bi ELSE Undefined
        ortt == IF Truthy(rtt) THEN rtt - d ELSE Undefined
        l1 == updateLatSample(s2.latCounters, "d", d)
        l2 == updateLatSample(l1, "ta", ta)
        l3 == updateLatSample(l2, "ad", ad)
        l4 == updateLatSample(l3, "oea", oea)
        l5 == updateLatSample(l4, "oer", oer)
        l6 == updateLatSample(l5, "ora", ora)
        l7 == updateLatSample(l6, "rtt", rtt)
        l8 == updateLatSample(l7, "ortt", ortt)
    IN [s2 EXCEPT !.tpCounters.activations = @ + 1,
                  !.tpCounters.requests = @ + 1,
                  !.tpCounters.invocations = @ + 1,
                  !.latCounters = l8]

processSample_attemptsLate(s, sample, activation) ==
    LET mt == s.measurementTime
        bi == sample.bi
    IN
    IF JsLt(bi, mt.start) \/ JsGt(bi, mt.stop) THEN s
    ELSE
    LET s0 == [s EXCEPT !.admitted = @ \cup {bi}] IN
    IF Truthy(sample.taidError)
    THEN [s0 EXCEPT !.tpCounters.requests = @ + 1, !.tpCounters.errors = @ + 1]
    ELSE
    LET s1 == [s0 EXCEPT !.tpCounters.attempts = @ + 1] IN
    LET ts == IF Truthy(sample.ts) THEN sample.ts ELSE Undefined
        s2 == IF Truthy(sample.ts) /\ JsGe(ts, mt.start) /\ JsLe(ts, mt.stop)
              THEN [s1 EXCEPT !.tpCounters.activations = @ + 1, !.tpCounters.requests = @ + 1]
              ELSE s1
    IN
    IF Truthy(sample.aaidError)
    THEN [s2 EXCEPT !.tpCounters.requests = @ + 1, !.tpCounters.errors = @ + 1]
    ELSE IF activation = <<>> THEN s2
    ELSE
    LET as == activation[1].start
        ae == activation[1].end
        d == activation[1].duration
    IN
    IF JsLt(as, mt.start) \/ JsGt(ae, mt.stop) THEN s2
    ELSE
    LET ta == IF Truthy(ts) THEN as - ts ELSE Undefined
        ad == ae - as
        oea == as - bi
        oer == ae - bi - d
        ai == sample.ai
        ora == IF Truthy(ai) THEN ai - ae ELSE Undefined
        rtt == IF Truthy(ai) THEN ai - bi ELSE Undefined
        ortt == IF Truthy(rtt) THEN rtt - d ELSE Undefined
        l1 == updateLatSample(s2.latCounters, "d", d)
        l2 == updateLatSample(l1, "ta", ta)
        l3 == updateLatSample(l2, "ad", ad)
        l4 == updateLatSample(l3, "oea", oea)
        l5 == updateLatSample(l4, "oer", oer)
        l6 == updateLatSample(l5, "ora", ora)
        l7 == updateLatSample(l6, "rtt", rtt)
        l8 == updateLatSample(l7, "ortt", ortt)
    IN [s2 EXCEPT !.tpCounters.activations = @ + 1,
                  !.tpCounters.requests = @ + 1,
                  !.tpCounters.invocations = @ + 1,
                  !.latCounters = l8]

\* Process a single sample and its optional activation (<<>> when none was
\* retrieved), updating throughput and latency counters
processSample(s, sample, activation) ==
    LET mt == s.measurementTime
        bi == sample.bi
    IN
    IF JsLt(bi, mt.start) \/ JsGt(bi, mt.stop) THEN s
    ELSE
    LET s1 == [s EXCEPT !.tpCounters.attempts = @ + 1, !.admitted = @ \cup {bi}] IN
    IF Truthy(sample.taidError)
    THEN [s1 EXCEPT !.tpCounters.requests = @ + 1, !.tpCounters.errors = @ + 1]
    ELSE
    LET ts == IF Truthy(sample.ts) THEN sample.ts ELSE Undefined
        s2 == IF Truthy(sample.ts) /\ JsGe(ts, mt.start) /\ JsLe(ts, mt.stop)
              THEN [s1 EXCEPT !.tpCounters.activations = @ + 1, !.tpCounters.requests = @ + 1]
              ELSE s1
    IN
    IF Truthy(sample.aaidError)
    THEN [s2 EXCEPT !.tpCounters.requests = @ + 1, !.tpCounters.errors = @ + 1]
    ELSE IF activation = <<>> THEN s2
    ELSE
    LET as == activation[1].start
        ae == activation[1].end
        d == activation[1].duration
    IN
    IF JsLt(as, mt.start) \/ JsGt(ae, mt.stop) THEN s2
    ELSE
    LET ta == IF Truthy(ts) THEN as - ts ELSE Undefined
        ad == ae - as
        oea == as - bi
        oer == ae - bi - d
        ai == sample.ai
        ora == IF Truthy(ai) THEN ai - ae ELSE Undefined
        rtt == IF Truthy(ai) THEN ai - bi ELSE Undefined
        ortt == IF Truthy(rtt) THEN rtt - d ELSE Undefined
        l1 == updateLatSample(s2.latCounters, "d", d)
        l2 == updateLatSample(l1, "ta", ta)
        l3 == updateLatSample(l2, "ad", ad)
        l4 == updateLatSample(l3, "oea", oea)
        l5 == updateLatSample(l4, "oer", oer)
        l6 == updateLatSample(l5, "ora", ora)
        l7 == updateLatSample(l6, "rtt", rtt)
        l8 == updateLatSample(l7, "ortt", ortt)
    IN [s2 EXCEPT !.tpCounters.activations = @ + 1,
                  !.tpCounters.requests = @ + 1,
                  !.tpCounters.invocations = @ + 1,
                  !.latCounters = l8]

postProcessDone_noCount(s, p) ==
    LET summary == [lat |-> s.latCounters, tp |-> s.tpCounters] IN
    IF p = Master
    THEN [s EXCEPT !.workerData[0] = <<summary>>, !.pc = "waiting"]
    ELSE [s EXCEPT !.outbox = Append(@, [init |-> 0, summary |-> <<summary>>]),
                   !.pc = "exited", !.exitCode = 0]

\* The end of postProcess: the master stores its own summary and counts it;
\* a worker sends its summary and exits
postProcessDone(s, p) ==
    LET summary == [lat |-> s.latCounters, tp |-> s.tpCounters] IN
    IF p = Master
    THEN checkSummary([s EXCEPT !.workerData[0] = <<summary>>, !.pc = "waiting"])
    ELSE [s EXCEPT !.outbox = Append(@, [init |-> 0, summary |-> <<summary>>]),
                   !.pc = "exited", !.exitCode = 0]

\* Samples of the buffer from index i on whose activation has to be fetched
toFetch(s, p, i) ==
    Cardinality({k \in i .. Len(s.sampleData) :
        ~Truthy(IF activity(p) = kACTION THEN s.sampleData[k].aaidError
                ELSE s.sampleData[k].taidError)})

RECURSIVE postProcess_noAwait(_, _)
postProcess_noAwait(s, p) ==
    IF s.actionSamples # <<>>
    THEN IF Truthy(Head(s.actionSamples).aaidError)
         THEN postProcess_noAwait([processSample(s, Head(s.actionSamples), <<>>)
                                     EXCEPT !.actionSamples = Tail(@)], p)
         ELSE [s EXCEPT !.outstanding = @ + 1]
    ELSE IF s.ppIndex > Len(s.sampleData) THEN postProcessDone(s, p)
    ELSE LET sample == s.sampleData[s.ppIndex] IN
         IF Truthy(IF activity(p) = kACTION THEN sample.aaidError ELSE sample.taidError)
         THEN postProcess_noAwait([processSample(s, sample, <<>>) EXCEPT !.ppIndex = @ + 1], p)
         ELSE [s EXCEPT !.outstanding = IF @ = 0 THEN toFetch(s, p, s.ppIndex) ELSE @]

\* postProcess from its current position to the next activation it has to
\* fetch, which it issues and awaits: samples with an error are classified
\* at once
RECURSIVE postProcess(_, _)
postProcess(s, p) ==
    IF s.actionSamples # <<>>
    THEN IF Truthy(Head(s.actionSamples).aaidError)
         THEN postProcess([processSample(s, Head(s.actionSamples), <<>>)
                             EXCEPT !.actionSamples = Tail(@)], p)
         ELSE [s EXCEPT !.outstanding = @ + 1]
    ELSE IF s.ppIndex > Len(s.sampleData) THEN postProcessDone(s, p)
    ELSE LET sample == s.sampleData[s.ppIndex] IN
         IF Truthy(IF activity(p) = kACTION THEN sample.aaidError ELSE sample.taidError)
         THEN postProcess([processSample(s, sample, <<>>) EXCEPT !.ppIndex = @ + 1], p)
         ELSE [s EXCEPT !.outstanding = @ + 1]

getActionSamplesOfRules_successOnly(triggerSample, ts, logs) ==
    [i \in 1 .. Cardinality({j \in 1 .. Len(logs) : logs[j]}) |->
        [triggerSample EXCEPT !.ts = ts, !.aaid = 1]]

getActionSamplesOfRules_triggerAlone(triggerSample, ts, logs) ==
    IF logs = <<>> THEN <<[triggerSample EXCEPT !.ts = ts]>>
    ELSE [i \in 1 .. Len(logs) |->
            IF logs[i] THEN [triggerSample EXCEPT !.ts = ts, !.aaid = 1]
            ELSE [triggerSample EXCEPT !.ts = ts, !.aaidError = 1]]

\* The bound action samples of a trigger activation with start ts and one
\* log entry per bound action (TRUE: success)
getActionSamplesOfRules(triggerSample, ts, logs) ==
    [i \in 1 .. Len(logs) |->
        IF logs[i] THEN [triggerSample EXCEPT !.ts = ts, !.aaid = 1]
        ELSE [triggerSample EXCEPT !.ts = ts, !.aaidError = 1]]

\* The activation records the platform may answer with, and the start times
\* of the trigger activations
Activations == [start : {T0 + 1}, end : {T0 + 1}, duration : {1}]

TriggerStarts == {T0 + 1}

SettleTimer_noWait(p) ==
    /\ procs[p].pc = "pp_delay"
    /\ IF p = Master
       THEN Turn(p, postProcess([procs[p] EXCEPT !.pc = "postProcess", !.wake = Undefined,
                                                 !.ppStart = now], p))
       ELSE Turn(p, [procs[p] EXCEPT !.pc = "stagger", !.wake = now + p * StaggerUnit])

\* The settling delay has elapsed: the master starts postProcess, a worker
\* first sleeps its stagger
SettleTimer(p) ==
    /\ procs[p].pc = "pp_delay"
    /\ now >= procs[p].wake
    /\ IF p = Master
       THEN Turn(p, postProcess([procs[p] EXCEPT !.pc = "postProcess", !.wake = Undefined,
                                                 !.ppStart = now], p))
       ELSE Turn(p, [procs[p] EXCEPT !.pc = "stagger", !.wake = now + p * StaggerUnit])

StaggerTimer(w) ==
    /\ procs[w].pc = "stagger"
    /\ now >= procs[w].wake
    /\ Turn(w, postProcess([procs[w] EXCEPT !.pc = "postProcess", !.wake = Undefined,
                                            !.ppStart = now], w))

\* The counters of a process and the samples it has left to classify
Snapshot(s) ==
    [tp |-> s.tpCounters, lat |-> s.latCounters,
     left |-> (Len(s.sampleData) + 1 - s.ppIndex) + Len(s.actionSamples)]

\* ow.activations.get of an action activation returns, or fails
FetchActivation(p) ==
    /\ procs[p].pc = "postProcess"
    /\ procs[p].actionSamples # <<>> \/ activity(p) = kACTION
    /\ \E activation \in {<<>>} \cup {<<a>> : a \in Activations} :
         LET s0 == [procs[p] EXCEPT !.outstanding = @ - 1]
             s1 == IF s0.actionSamples # <<>>
                   THEN [processSample(s0, Head(s0.actionSamples), activation)
                           EXCEPT !.actionSamples = Tail(@)]
                   ELSE [processSample(s0, s0.sampleData[s0.ppIndex], activation)
                           EXCEPT !.ppIndex = @ + 1]
             s2 == IF activation = <<>>
                   THEN [s1 EXCEPT !.failedFetch = <<[before |-> Snapshot(s0), after |-> Snapshot(s1)]>>]
                   ELSE s1
         IN Turn(p, postProcess(s2, p))

\* ow.activations.get of a trigger activation returns, or fails: the failure
\* rejects postProcess, and the rethrown error either ends the process or
\* leaves it idle
FetchTriggerOk(p) ==
    /\ procs[p].pc = "postProcess"
    /\ procs[p].actionSamples = <<>>
    /\ activity(p) = kRULE
    /\ \E ts \in TriggerStarts : \E n \in 0 .. input.ratio : \E logs \in [1 .. n -> BOOLEAN] :
            LET i == procs[p].ppIndex
                s1 == [procs[p] EXCEPT !.sampleData[i].ts = ts, !.outstanding = @ - 1]
            IN Turn(p, postProcess([s1 EXCEPT
                        !.actionSamples = getActionSamplesOfRules(procs[p].sampleData[i], ts, logs),
                        !.ppIndex = @ + 1], p))

FetchTriggerFail_skip(p) ==
    /\ procs[p].pc = "postProcess"
    /\ procs[p].actionSamples = <<>>
    /\ activity(p) = kRULE
    /\ Turn(p, postProcess([procs[p] EXCEPT !.ppFailedAt = procs[p].ppIndex,
                                            !.outstanding = @ - 1,
                                            !.ppIndex = @ + 1], p))

\* The fetch of a trigger activation fails: postProcess is rejected, and the
\* error rethrown by the caller's handler either ends the process or leaves
\* it idle
FetchTriggerFail(p) ==
    /\ procs[p].pc = "postProcess"
    /\ procs[p].actionSamples = <<>>
    /\ activity(p) = kRULE
    /\ \E dies \in BOOLEAN :
            Turn(p, [procs[p] EXCEPT !.pc = IF dies THEN "exited" ELSE "failed",
                                     !.killed = dies,
                                     !.outstanding = @ - 1,
                                     !.ppFailedAt = procs[p].ppIndex])

FetchTrigger(p) == FetchTriggerOk(p) \/ FetchTriggerFail(p)

\* ---- the master's handlers ----

\* A message of worker w arrives at the master
MasterMessage(w) ==
    /\ Alive(Master)
    /\ toMaster[w] # <<>>
    /\ LET msg == Head(toMaster[w])
           s1 == IF Truthy(msg.init) THEN checkInit(procs[Master], now) ELSE procs[Master]
           s2 == IF msg.summary # <<>>
                 THEN checkSummary([s1 EXCEPT !.workerData[w] = msg.summary])
                 ELSE s1
       IN /\ procs' = [procs EXCEPT ![Master] = s2]
          /\ toMaster' = [toMaster EXCEPT ![w] = Tail(@)]
    /\ UNCHANGED <<input, now, toWorker, exitEvents>>

\* The exit of worker w is notified to the master
WorkerExit(w) ==
    /\ Alive(Master)
    /\ w \in exitEvents
    /\ procs' = [procs EXCEPT ![Master] = [checkExit(@) EXCEPT !.exitsCounted = @ \cup {w}]]
    /\ exitEvents' = exitEvents \ {w}
    /\ UNCHANGED <<input, now, toMaster, toWorker>>

\* testTeardown is over, or its command has failed: process.exit
Teardown ==
    /\ procs[Master].pc = "teardown"
    /\ \E code \in {0, kTeardownFailure} :
          Turn(Master, [procs[Master] EXCEPT !.pc = "exited", !.exitCode = code])

\* A worker process is killed
Kill(w) ==
    /\ procs[w].pc \notin {"starting", "exited"}
    /\ Turn(w, [procs[w] EXCEPT !.pc = "exited", !.killed = TRUE])

Next ==
    \/ \E p \in Procs :
         \/ Start(p)
         \/ InvocationsReturn(p)
         \/ SleepTimer(p)
         \/ SettleTimer(p)
         \/ FetchActivation(p)
         \/ FetchTrigger(p)
    \/ \E w \in Workers :
         \/ AbortMessage(w)
         \/ StaggerTimer(w)
         \/ MasterMessage(w)
         \/ WorkerExit(w)
         \/ Kill(w)
    \/ PeriodTimer
    \/ Teardown
    \/ SetupFail
    \/ Tick

Spec == Init /\ [][Next]_vars

\* ---- runs in which no process fails ----

\* Some timer of a live process is set and not yet due
TimerPending ==
    \/ \E p \in Procs :
          \/ procs[p].pc \in {"pp_delay", "stagger"} /\ procs[p].wake > now
          \/ /\ procs[p].pc = "sleeping"
             /\ ~procs[p].loopSleeper[1].settled
             /\ procs[p].loopSleeper[1].due > now
    \/ /\ Alive(Master)
       /\ procs[Master].periodTimer # <<>>
       /\ procs[Master].periodTimer[1] > now

\* Some timer of a live process is due and has not fired
TimerDue ==
    \/ \E p \in Procs :
          \/ procs[p].pc \in {"pp_delay", "stagger"} /\ procs[p].wake <= now
          \/ /\ procs[p].pc = "sleeping"
             /\ ~procs[p].loopSleeper[1].settled
             /\ procs[p].loopSleeper[1].due <= now
    \/ /\ Alive(Master)
       /\ procs[Master].periodTimer # <<>>
       /\ procs[Master].periodTimer[1] <= now

\* The clock never stops before a timer that is set, and a timer fires in
\* the millisecond it is due
TickLive ==
    /\ TimerPending
    /\ ~TimerDue
    /\ now' = now + 1
    /\ UNCHANGED <<input, procs, toMaster, toWorker, exitEvents>>

\* The configurations of these runs: one activity per rule, with every
\* single-process configuration and the two-process run of actions that a
\* period ends
LiveInputs ==
    {i \in Inputs :
        /\ i.ratio = 1
        /\ \/ i.workers = 1
           \/ /\ i.warmup = 0 /\ i.iterations = 0 /\ i.period = 1
              /\ i.delta = 1 /\ i.blocking = kNONE /\ i.activity = kACTION}

InitLive ==
    /\ input \in LiveInputs
    /\ now = T0
    /\ procs = [p \in Procs |-> InitProc(p)]
    /\ toMaster = [w \in Workers |-> <<>>]
    /\ toWorker = [w \in Workers |-> <<>>]
    /\ exitEvents = {}

\* Every step but the death of a worker, the failed fetch of a trigger
\* activation and the failure of test setup
NextLive ==
    \/ \E p \in Procs :
         \/ Start(p)
         \/ InvocationsReturn(p)
         \/ SleepTimer(p)
         \/ SettleTimer(p)
         \/ FetchActivation(p)
         \/ FetchTriggerOk(p)
    \/ \E w \in Workers :
         \/ AbortMessage(w)
         \/ StaggerTimer(w)
         \/ MasterMessage(w)
         \/ WorkerExit(w)
    \/ PeriodTimer
    \/ Teardown
    \/ TickLive

\* The event loops keep running callbacks that are ready, and timers fire
SpecLive == InitLive /\ [][NextLive]_vars /\ WF_vars(NextLive)


\* ---- aggregation ----

TpNames == {"attempts", "invocations", "activations", "requests"}

\* The loop of computeLatStats over workerData[i .. last] in uniform mode
RECURSIVE mergeLat(_, _, _, _)
mergeLat(wd, statName, i, acc) ==
    IF i \notin DOMAIN wd THEN acc
    ELSE LET c == wd[i].lat[statName]
             a1 == IF Truthy(c.sum)
                   THEN [acc EXCEPT !.hasSamples = TRUE,
                                    !.totalSum = @ + c.sum,
                                    !.totalSumSqr = @ + c.sumSqr,
                                    !.min = IF ~Truthy(@) \/ JsGt(@, c.min) THEN c.min ELSE @,
                                    !.max = IF ~Truthy(@) \/ JsLt(@, c.max) THEN c.max ELSE @]
                   ELSE acc
         IN mergeLat(wd, statName, i + 1, [a1 EXCEPT !.totalInvocations = @ + wd[i].tp.invocations])

\* Average, standard deviation, minimum and maximum of one latency statistic:
\* avg is the quotient num / den, std the root of sumSqr / n - (sum / n)^2,
\* both <<>> when undefined.  In master-apart mode hasSamples is not set.
computeLatStats(wd, master_apart, statName) ==
    LET m == IF master_apart
             THEN [totalSum |-> wd[0].lat[statName].sum,
                   totalSumSqr |-> wd[0].lat[statName].sumSqr,
                   totalInvocations |-> wd[0].tp.invocations,
                   hasSamples |-> FALSE,
                   min |-> wd[0].lat[statName].min,
                   max |-> wd[0].lat[statName].max]
             ELSE mergeLat(wd, statName, 0,
                           [totalSum |-> 0, totalSumSqr |-> 0, totalInvocations |-> 0,
                            hasSamples |-> FALSE, min |-> Undefined, max |-> Undefined])
    IN [avg |-> IF m.hasSamples THEN <<[num |-> m.totalSum, den |-> m.totalInvocations]>> ELSE <<>>,
        std |-> IF m.hasSamples
                THEN <<[sumSqr |-> m.totalSumSqr, sum |-> m.totalSum, n |-> m.totalInvocations]>>
                ELSE <<>>,
        min |-> m.min,
        max |-> m.max]

\* The sum of one throughput counter over workerData[i .. last]
RECURSIVE totalCount(_, _, _)
totalCount(wd, statName, i) ==
    IF i \notin DOMAIN wd THEN 0
    ELSE wd[i].tp[statName] + totalCount(wd, statName, i + 1)

computeTpStats_all(wd, statName, mt) ==
    LET total == totalCount(wd, statName, 0)
    IN [abs |-> total,
        tp |-> [num |-> total * 1000, den |-> mt.stop - mt.start],
        tpw |-> [num |-> total * 1000, den |-> mt.stop - mt.start],
        tpd |-> [num |-> 0, den |-> total]]

\* Throughput of one counter with (tp) and without (tpw) the master, and the
\* percent difference (tpd); each a quotient num / den, measure_time being
\* (stop - start) / 1000
computeTpStats(wd, statName, mt) ==
    LET masterCount == wd[0].tp[statName]
        total == totalCount(wd, statName, 0)
    IN [abs |-> total,
        tp |-> [num |-> total * 1000, den |-> mt.stop - mt.start],
        tpw |-> [num |-> (total - masterCount) * 1000, den |-> mt.stop - mt.start],
        tpd |-> [num |-> (total - (total - masterCount)) * 100, den |-> total]]

\* ---- post-processing over samples of any timing ----

\* The window of these runs, and the timestamps around it
PPWindow == [start |-> T0 + 1, stop |-> T0 + 2]

PPTimes == T0 .. (T0 + 3)

PPInputs ==
    [workers : {1}, master_apart : {FALSE}, activity : {kACTION, kRULE}, warmup : {0}]

\* The activation records of the platform: start <= end, any duration
PPActivations ==
    {a \in [start : PPTimes, end : PPTimes, duration : 0 .. 1] : a.start <= a.end}

\* The samples the loop may have stored for one action invocation
PPActionSamples ==
    UNION { {invokeActions(1, blocking, bi, <<ok>>, <<ai>>)[1] : ai \in {bi, bi + 1}} :
            <<blocking, bi, ok>> \in BOOLEAN \X PPTimes \X BOOLEAN }

\* The samples the loop may have stored for one trigger
PPTriggerSamples ==
    { invokeRules(bi, ok)[1] : <<bi, ok>> \in PPTimes \X BOOLEAN }

\* The loop has ended; the window is set
PPProc(p) ==
    [InitProc(p) EXCEPT !.pc = "postProcess", !.abort = TRUE, !.measurementTime = PPWindow]

InitPP ==
    /\ input \in PPInputs
    /\ now = T0
    /\ procs = [p \in Procs |-> PPProc(p)]
    /\ toMaster = [w \in Workers |-> <<>>]
    /\ toWorker = [w \in Workers |-> <<>>]
    /\ exitEvents = {}

\* processSample of one sample, kept with what it was classified against
classify(s, sample, activation) ==
    [processSample(s, sample, activation)
        EXCEPT !.classified = Append(@, [sample |-> sample, activation |-> activation])]

\* processSampleWithAction: an error sample is classified without a fetch
ActivationsFor(sample) ==
    IF Truthy(sample.aaidError) THEN {<<>>}
    ELSE {<<>>} \cup {<<a>> : a \in PPActivations}

StepPP(p, s) ==
    /\ procs' = [procs EXCEPT ![p] = s]
    /\ UNCHANGED <<input, now, toMaster, toWorker, exitEvents>>

\* postProcess handles one sample of an action run
ClassifyAction(p) ==
    /\ procs[p].pc = "postProcess"
    /\ input.activity = kACTION
    /\ Len(procs[p].classified) < MaxSamples
    /\ \E sample \in PPActionSamples : \E activation \in ActivationsFor(sample) :
          StepPP(p, classify(procs[p], sample, activation))

\* postProcess handles one trigger sample of a rule run: an error sample is
\* classified, any other is expanded into its bound action samples
ClassifyTrigger(p) ==
    /\ procs[p].pc = "postProcess"
    /\ input.activity = kRULE
    /\ procs[p].actionSamples = <<>>
    /\ Len(procs[p].classified) < MaxSamples
    /\ \E sample \in PPTriggerSamples :
          IF Truthy(sample.taidError)
          THEN StepPP(p, classify(procs[p], sample, <<>>))
          ELSE \E ts \in PPTimes : \E n \in 0 .. (MaxSamples - Len(procs[p].classified)) :
               \E logs \in [1 .. n -> BOOLEAN] :
                  StepPP(p, [procs[p] EXCEPT
                      !.actionSamples = getActionSamplesOfRules(sample, ts, logs),
                      !.expansion = <<[trigger |-> sample, ts |-> ts, logs |-> logs,
                                       derived |-> getActionSamplesOfRules(sample, ts, logs),
                                       before |-> Snapshot(procs[p]),
                                       after |-> IF n = 0 THEN <<Snapshot(procs[p])>> ELSE <<>>,
                                       inWindow |-> 0]>>])

\* postProcess handles the next bound action sample of the trigger
ClassifyDerived(p) ==
    /\ procs[p].pc = "postProcess"
    /\ procs[p].actionSamples # <<>>
    /\ LET sample == Head(procs[p].actionSamples) IN
       \E activation \in ActivationsFor(sample) :
          LET full == /\ activation # <<>>
                      /\ activation[1].start >= PPWindow.start
                      /\ activation[1].end <= PPWindow.stop
              s1 == classify(procs[p], sample, activation)
          IN StepPP(p, [s1 EXCEPT !.actionSamples = Tail(@),
                                  !.expansion[1].inWindow = @ + (IF full THEN 1 ELSE 0),
                                  !.expansion[1].after =
                                      IF Len(s1.actionSamples) = 1 THEN <<Snapshot(s1)>> ELSE @])

\* postProcess is over
FinishPP(p) ==
    /\ procs[p].pc = "postProcess"
    /\ procs[p].actionSamples = <<>>
    /\ StepPP(p, [procs[p] EXCEPT !.pc = "done", !.firstRun = <<Snapshot(procs[p])>>])

\* The samples classified, with the same activation records, once more
RECURSIVE reclassify(_, _)
reclassify(s, log) ==
    IF log = <<>> THEN s
    ELSE reclassify(processSample(s, log[1].sample, log[1].activation), Tail(log))

\* postProcess is run a second time over the same buffer
RerunPP(p) ==
    /\ procs[p].pc = "done"
    /\ StepPP(p, [reclassify(procs[p], procs[p].classified) EXCEPT !.pc = "rerun"])

NextPP ==
    \E p \in Procs :
         \/ ClassifyAction(p)
         \/ ClassifyTrigger(p)
         \/ ClassifyDerived(p)
         \/ FinishPP(p)
         \/ RerunPP(p)

SpecPP == InitPP /\ [][NextPP]_vars

\* ---- aggregation over the summaries of all processes ----

AggInputs ==
    [workers : 1 .. MaxWorkers, master_apart : BOOLEAN, activity : {kACTION}, warmup : {0}]

InitAgg ==
    /\ input \in AggInputs
    /\ now = T0
    /\ procs = [p \in Procs |-> PPProc(p)]
    /\ toMaster = [w \in Workers |-> <<>>]
    /\ toWorker = [w \in Workers |-> <<>>]
    /\ exitEvents = {}

\* The samples a process may classify: of an action, of a failed trigger, or
\* derived from a trigger
AggSamples ==
    PPActionSamples
    \cup {s \in PPTriggerSamples : Truthy(s.taidError)}
    \cup UNION { {getActionSamplesOfRules(s, ts, <<ok>>)[1] : <<ts, ok>> \in PPTimes \X BOOLEAN} :
                 s \in {r \in PPTriggerSamples : ~Truthy(r.taidError)} }

\* Samples admitted so far, in all processes
RECURSIVE attemptsOf(_)
attemptsOf(S) ==
    IF S = {} THEN 0
    ELSE LET q == CHOOSE q \in S : TRUE
         IN procs[q].tpCounters.attempts + attemptsOf(S \ {q})

\* A process classifies one more sample; the processes share no state while
\* they post-process, and process p is followed once those before it are through
Contribute(p) ==
    /\ procs[p].pc = "postProcess"
    /\ \A q \in Procs : q < p => procs[q].pc # "postProcess"
    /\ attemptsOf(Procs) < MaxSamples
    /\ \E sample \in AggSamples : \E activation \in ActivationsFor(sample) :
          StepPP(p, processSample(procs[p], sample, activation))

\* The summary of a process reaches workerData
Summarise(p) ==
    /\ procs[p].pc = "postProcess"
    /\ \A q \in Procs : q < p => procs[q].pc # "postProcess"
    /\ LET s == [procs[p] EXCEPT !.pc = "done"]
           summary == [lat |-> s.latCounters, tp |-> s.tpCounters]
       IN procs' = [q \in Procs |->
                      LET r == IF q = p THEN s ELSE procs[q]
                      IN IF q = Master THEN [r EXCEPT !.workerData[p] = <<summary>>] ELSE r]
    /\ UNCHANGED <<input, now, toMaster, toWorker, exitEvents>>

\* computeOutputRecord over the summaries of all processes
Aggregate ==
    /\ procs[Master].output = <<>>
    /\ \A q \in Procs : procs[Master].workerData[q] # <<>>
    /\ LET wd == [q \in Procs |-> procs[Master].workerData[q][1]] IN
       StepPP(Master, [procs[Master] EXCEPT !.output =
            <<[lat |-> [m \in Metrics |-> computeLatStats(wd, input.master_apart, m)],
               tp |-> [c \in TpNames |-> computeTpStats(wd, c, PPWindow)]]>>])

NextAgg ==
    \/ \E p \in Procs :
         \/ Contribute(p)
         \/ Summarise(p)
    \/ Aggregate

SpecAgg == InitAgg /\ [][NextAgg]_vars

\* ---- merging the accumulators of one latency statistic ----

\* The totals of computeLatStats before its loop
LatZero ==
    [totalSum |-> 0, totalSumSqr |-> 0, totalInvocations |-> 0,
     hasSamples |-> FALSE, min |-> Undefined, max |-> Undefined]

\* The statistic followed, and the values a full invocation may yield for it
MergeStat == "oea"

MergeValues == (-1) .. MaxValue

MergeInputs ==
    [workers : 1 .. MaxWorkers, master_apart : {FALSE}, activity : {kACTION}, warmup : {0}]

InitMerge ==
    /\ input \in MergeInputs
    /\ now = T0
    /\ procs = [p \in Procs |-> PPProc(p)]
    /\ toMaster = [w \in Workers |-> <<>>]
    /\ toWorker = [w \in Workers |-> <<>>]
    /\ exitEvents = {}

\* Values contributed so far, in all processes
RECURSIVE contributedIn(_)
contributedIn(S) ==
    IF S = {} THEN 0
    ELSE LET q == CHOOSE q \in S : TRUE
         IN Len(procs[q].contributed) + contributedIn(S \ {q})

\* A full invocation of process p: invocations counted, the statistic updated
Accumulate(p) ==
    /\ procs[p].pc = "postProcess"
    /\ \A q \in Procs : q < p => procs[q].pc # "postProcess"
    /\ contributedIn(Procs) < MaxValues
    /\ \E value \in MergeValues :
          StepPP(p, [procs[p] EXCEPT
                        !.tpCounters.invocations = @ + 1,
                        !.latCounters = updateLatSample(@, MergeStat, value),
                        !.contributed = Append(@, value)])

NextMerge ==
    \E p \in Procs :
         \/ Accumulate(p)
         \/ Summarise(p)

SpecMerge == InitMerge /\ [][NextMerge]_vars

\* ---- the rows of the per-sample table ----

\* new Date().getTime() at the time t of the model: the clock of the model
\* counts from Epoch milliseconds after 1 January 1970
ms(t) == IF t = Undefined THEN Undefined ELSE Epoch + t

\* The parameters of sql_insert_workersample, in their order
sqlParams ==
    <<"db", "expId", "trycnt", "bi", "as", "ae", "ts", "ta", "oea", "oer",
      "d", "ad", "ai", "ora", "rtt", "ortt">>

\* The arguments processSample passes for a full invocation, in their order
sqlArgs(sample, activation) ==
    LET bi == ms(sample.bi)
        ts == IF Truthy(sample.ts) THEN ms(sample.ts) ELSE Undefined
        as == ms(activation.start)
        ae == ms(activation.end)
        d == activation.duration
        ta == IF Truthy(ts) THEN as - ts ELSE Undefined
        ad == ae - as
        oea == as - bi
        oer == ae - bi - d
        ai == ms(sample.ai)
        ora == IF Truthy(ai) THEN ai - ae ELSE Undefined
        rtt == IF Truthy(ai) THEN ai - bi ELSE Undefined
        ortt == IF Truthy(rtt) THEN rtt - d ELSE Undefined
    IN <<"db", 1, bi, as, ae, ts, ta, oea, oer, d, ad, ai, ora, rtt, ortt>>

\* A call binds its arguments to the parameters by position; a parameter
\* without an argument is undefined
bindArgs(args) ==
    [i \in 1 .. Len(sqlParams) |-> IF i <= Len(args) THEN args[i] ELSE Undefined]

param(bound, name) ==
    bound[CHOOSE i \in 1 .. Len(sqlParams) : sqlParams[i] = name]

\* The samples and activation records of full invocations
SqlSamples ==
    {s \in PPActionSamples :
        Truthy(s.aaid) /\ s.bi >= PPWindow.start /\ s.bi <= PPWindow.stop}

SqlActivations ==
    {a \in PPActivations : a.start >= PPWindow.start /\ a.end <= PPWindow.stop}

InitSql ==
    /\ input \in [workers : {1}, master_apart : {FALSE}, activity : {kACTION}, warmup : {0}]
    /\ now = T0
    /\ procs = [p \in Procs |-> PPProc(p)]
    /\ toMaster = [w \in Workers |-> <<>>]
    /\ toWorker = [w \in Workers |-> <<>>]
    /\ exitEvents = {}

\* processSample calls sql_insert_workersample for a full invocation: db.run
\* is started a first time
SqlInsert(p) ==
    /\ procs[p].pc = "postProcess"
    /\ procs[p].sql = <<>>
    /\ Len(procs[p].sqlLog) < MaxSamples
    /\ \E sample \in SqlSamples : \E activation \in SqlActivations :
          StepPP(p, [procs[p] EXCEPT
              !.sql = <<[bound |-> bindArgs(sqlArgs(sample, activation)),
                         bi |-> ms(sample.bi), attempts |-> 1]>>])

\* The callback of db.run with an error: the insert is started again with
\* trycnt + 1 while trycnt < 50, and the row is given up otherwise
SqlFailed(p) ==
    /\ procs[p].sql # <<>>
    /\ LET call == procs[p].sql[1]
           bound == call.bound
       IN IF param(bound, "trycnt") < kSqlRetries
          THEN StepPP(p, [procs[p] EXCEPT
                  !.sql[1].bound = [bound EXCEPT ![3] = @ + 1],
                  !.sql[1].attempts = @ + 1])
          ELSE StepPP(p, [procs[p] EXCEPT
                  !.sql = <<>>,
                  !.sqlLog = Append(@, [bi |-> call.bi, row |-> bound,
                                        attempts |-> call.attempts, stored |-> FALSE])])

\* The callback of db.run without an error
SqlStored(p) ==
    /\ procs[p].sql # <<>>
    /\ LET call == procs[p].sql[1] IN
       StepPP(p, [procs[p] EXCEPT
           !.sql = <<>>,
           !.sqlLog = Append(@, [bi |-> call.bi, row |-> call.bound,
                                 attempts |-> call.attempts, stored |-> TRUE])])

NextSql ==
    \E p \in Procs :
         \/ SqlInsert(p)
         \/ SqlFailed(p)
         \/ SqlStored(p)

SpecSql == InitSql /\ [][NextSql]_vars

\* ---- properties ----

LoopStates == {"starting", "invoking", "sleeping"}

\* Iterations of process p whose invocations have all returned
completedIterations(p) ==
    procs[p].iterationsStarted - (IF procs[p].pc = "invoking" THEN 1 ELSE 0)

Window(p) == procs[p].measurementTime

\* C1: measurementTime.start is stamped only after every one of the W
\* processes has completed its warmup iterations and has reported ready.
C1_StartAfterAllReady ==
    Window(Master).start # Unset =>
        \A p \in Procs :
            /\ procs[p].warmupCounter = -1
            /\ completedIterations(p) >= input.warmup
            /\ Len(procs[p].sampleData) >= input.warmup * perIteration(p)

C1_Witness ==
    /\ input.workers = 2
    /\ input.warmup = 1
    /\ Window(Master).start # Unset
    /\ procs[Master].abort = FALSE

\* C2: computeOutputRecord runs only when workerData holds the summary of
\* every one of the W processes.
C2_AggregateFromAll ==
    procs[Master].computed > 0 =>
        /\ procs[Master].aggregatedFrom = input.workers
        /\ \A q \in Procs : procs[Master].workerData[q] # <<>>

C2_Witness ==
    /\ input.workers = 2
    /\ procs[Master].computed = 1

\* C3: every sample that changes a counter in processSample has a
\* beforeInvocation timestamp bi with start <= bi <= stop, samples of failed
\* invocations included.
C3_AdmittedInWindow ==
    \A p \in Procs : \A b \in procs[p].admitted :
        /\ b # Undefined
        /\ Window(p).start <= b
        /\ b <= Window(p).stop

\* C4: measurementTime.stop is written once, at the master, after its loop
\* has ended; a worker's window, once different from {-1, -1}, is the
\* master's {start, stop} pair.
C4_WindowFromMaster ==
    /\ procs[Master].stopStamps <= 1
    /\ Window(Master).stop # Unset =>
          /\ procs[Master].stopStamps = 1
          /\ procs[Master].pc \notin LoopStates
          /\ Window(Master).start # Unset
    /\ \A w \in Workers :
          /\ procs[w].stopStamps = 0
          /\ Window(w) # measurementTime => Window(w) = Window(Master)

C4_Witness ==
    \E w \in Workers : Window(w) # measurementTime /\ Window(w).stop > Window(w).start

\* C5: in every process postProcess starts only after the process's mainLoop
\* has returned and pp_delay has elapsed since; no sample is classified while
\* the loop can still issue invocations.
C5_PostProcessAfterLoop ==
    \A p \in Procs :
        (\/ procs[p].pc = "postProcess"
         \/ procs[p].ppStart # Undefined
         \/ procs[p].ppIndex > 1
         \/ procs[p].tpCounters # tpCounters)
        => /\ procs[p].loopEnd # Undefined
           /\ procs[p].ppStart # Undefined
           /\ procs[p].ppStart >= procs[p].loopEnd + input.pp_delay
           /\ procs[p].pc \notin LoopStates
           /\ procs[p].abort

C5_Witness ==
    \E w \in Workers :
        /\ procs[w].tpCounters.attempts > 0
        /\ procs[Master].tpCounters.attempts > 0

\* C6: once abort is set in a process, its loop starts no further iteration,
\* and when the loop has exited every iteration it started has all its
\* samples in the sample buffer.
C6_AbortEndsLoop ==
    /\ [][\A p \in Procs :
            procs[p].abort => procs'[p].iterationsStarted = procs[p].iterationsStarted]_vars
    /\ [](\A p \in Procs :
            procs[p].loopEnd # Undefined =>
                Len(procs[p].sampleData) = procs[p].iterationsStarted * perIteration(p))

\* An iteration was in flight when abort was set, and the loop has exited
C6_Witness ==
    \E w \in Workers :
        /\ procs[w].loopEnd # Undefined
        /\ ~procs[w].wokenByAbort
        /\ procs[w].iterationsStarted = 2
        /\ Len(procs[w].sampleData) = 2

\* C7 as stated: abortLoop executes at most once in each process.
C7_AbortLoopOnce ==
    \A p \in Procs : procs[p].abortCalls <= 1

\* C7 amended: the abort flag never returns to false; abortLoop executes at
\* most once in a worker, and at most once at the master unless both a period
\* and an iteration cap are configured, where it executes at most twice.
C7_AbortMonotonic ==
    /\ [][\A p \in Procs : procs[p].abort => procs'[p].abort]_vars
    /\ [](\A p \in Procs :
            /\ procs[p].abort <=> procs[p].abortCalls > 0
            /\ procs[p].abortCalls <= 2
            /\ procs[p].abortCalls = 2 =>
                  p = Master /\ input.period # 0 /\ input.iterations # 0)

C7_Witness ==
    /\ procs[Master].abortCalls = 2
    /\ \E w \in Workers : procs[w].abortCalls = 1

\* C8: abort firing during the pacing sleep resolves the sleep at once: the
\* loop exits in the same turn, without another invocation; a loop whose
\* abort flag is set never enters or stays in the pacing sleep.
C8_SleepAborted ==
    /\ [][\A p \in Procs :
            (procs[p].pc = "sleeping" /\ procs'[p].abort) =>
                /\ procs'[p].pc \notin LoopStates
                /\ procs'[p].loopEnd = now
                /\ procs'[p].iterationsStarted = procs[p].iterationsStarted
                /\ procs'[p].sampleData = procs[p].sampleData]_vars
    /\ [](\A p \in Procs : procs[p].pc = "sleeping" => ~procs[p].abort)

\* Abort fired during a pacing sleep whose timer was not yet due
C8_Witness ==
    \E w \in Workers :
        /\ procs[w].wokenByAbort
        /\ procs[w].loopEnd < procs[w].loopSleeper[1].due
        /\ procs[w].pc = "pp_delay"

SummarySent(w) ==
    \/ procs[Master].workerData[w] # <<>>
    \/ \E i \in 1 .. Len(toMaster[w]) : toMaster[w][i].summary # <<>>

\* C9: at the master the completion of the summary barrier is followed, in
\* the same turn, by the aggregation and by the master's own count in the exit
\* barrier; output is generated only after the aggregation and after every
\* worker's exit was counted; a worker that sent its summary has exited.
C9_SummaryThenExit ==
    /\ procs[Master].remainingSummaries = 0 =>
          procs[Master].computed = 1 /\ procs[Master].ownExitCounted
    /\ procs[Master].ownExitCounted => procs[Master].computed = 1
    /\ procs[Master].generated > 0 =>
          /\ procs[Master].computed = 1
          /\ procs[Master].ownExitCounted
          /\ procs[Master].exitsCounted = Workers
    /\ \A w \in Workers : SummarySent(w) => procs[w].pc = "exited"

\* Output generated where the worker's exit was counted before its summary
C9_Witness ==
    /\ input.workers = 2
    /\ procs[Master].generated = 1
    /\ procs[Master].remainingExits = 0
    /\ procs[Master].pc = "teardown"

\* C10: when every worker's exit has been notified, whatever the way the
\* workers ended, and the master has finished its own post-processing and has
\* nothing left to receive, the master has generated the output.
C10_ExitBarrierCompletes ==
    (/\ procs[Master].pc = "waiting"
     /\ \A w \in Workers :
          /\ procs[w].pc = "exited"
          /\ w \in procs[Master].exitsCounted
          /\ toMaster[w] = <<>>)
    => procs[Master].generated > 0

\* The run is over: every stage of the protocol was passed
RunComplete ==
    /\ \A p \in Procs :
          /\ procs[p].warmupCounter = -1
          /\ procs[p].loopEnd # Undefined
          /\ procs[p].ppStart # Undefined
          /\ procs[p].ppIndex > Len(procs[p].sampleData)
          /\ procs[p].actionSamples = <<>>
          /\ procs[p].pc = "exited"
          /\ procs[Master].workerData[p] # <<>>
    /\ procs[Master].remainingInits = 0
    /\ Window(Master).start # Unset
    /\ Window(Master).stop # Unset
    /\ \A w \in Workers : Window(w) = Window(Master)
    /\ procs[Master].remainingSummaries = 0
    /\ procs[Master].computed = 1
    /\ procs[Master].generated = 1

\* C11: when callbacks that are ready are run, timers fire, every invocation
\* and every activation fetch returns and no process fails, every run reaches
\* the state where all processes were ready, start and stop were stamped,
\* the window was broadcast, every process has post-processed, all summaries
\* were received, the output was generated and the master has exited.
C11_RunCompletes == <>RunComplete

C11_Witness ==
    /\ input.workers = 2
    /\ RunComplete

\* C12: each of the three countdown barriers fires its completion at most
\* once in a run: start is stamped at most once, computeOutputRecord runs at
\* most once and generateOutput runs at most once, and a countdown never
\* passes below zero.
C12_BarriersFireOnce ==
    /\ procs[Master].startStamps <= 1
    /\ procs[Master].computed <= 1
    /\ procs[Master].generated <= 1
    /\ procs[Master].startStamps = 1 <=> procs[Master].remainingInits = 0
    /\ procs[Master].computed = 1 <=> procs[Master].remainingSummaries = 0
    /\ procs[Master].generated = 1 <=> procs[Master].remainingExits = 0
    /\ procs[Master].remainingInits >= 0
    /\ procs[Master].remainingSummaries >= 0
    /\ procs[Master].remainingExits >= 0
    /\ \A w \in Workers : procs[w].startStamps = 0 /\ procs[w].computed = 0 /\ procs[w].generated = 0

\* The three barriers have fired in a run of two processes, and the master
\* has exited
C12_Witness ==
    /\ input.workers = 2
    /\ procs[Master].startStamps = 1
    /\ procs[Master].computed = 1
    /\ procs[Master].generated = 1
    /\ procs[Master].pc = "exited"

\* C13: in rule activity, when the fetch of a trigger activation fails,
\* postProcess of that process ends there: from then on no sample of its
\* buffer is classified (its counters and its position no longer change),
\* and the process reports no summary, neither as a worker's message nor as
\* the master's own workerData[0].
C13_TriggerFetchFatal ==
    /\ [][\A p \in Procs :
            procs[p].ppFailedAt # Undefined =>
                /\ procs'[p].tpCounters = procs[p].tpCounters
                /\ procs'[p].latCounters = procs[p].latCounters
                /\ procs'[p].ppIndex = procs[p].ppIndex]_vars
    /\ [](\A p \in Procs :
            procs[p].ppFailedAt # Undefined =>
                /\ activity(p) = kRULE
                /\ procs[p].pc \in {"failed", "exited"}
                /\ procs[p].ppIndex = procs[p].ppFailedAt
                /\ procs[Master].workerData[p] = <<>>
                /\ p # Master => ~SummarySent(p)
                /\ procs[Master].computed = 0)

\* A trigger fetch failed while later samples were still in the buffer
C13_Witness ==
    \E p \in Procs :
        /\ procs[p].ppFailedAt # Undefined
        /\ procs[p].ppFailedAt < Len(procs[p].sampleData)

\* C14: when the fetch of an action's activation record fails, the sample
\* changes neither errors, nor invocations, nor any latency accumulator, and
\* post-processing goes on with the next sample.
C14_FailedFetchDiscarded ==
    \A p \in Procs :
        procs[p].failedFetch # <<>> =>
            LET f == procs[p].failedFetch[1] IN
            /\ f.after.tp.errors = f.before.tp.errors
            /\ f.after.tp.invocations = f.before.tp.invocations
            /\ f.after.lat = f.before.lat
            /\ f.after.left = f.before.left - 1

\* The fetch failed for a sample inside the window, and the next sample was
\* classified with its activation
C14_Witness ==
    \E p \in Procs :
        /\ procs[p].failedFetch # <<>>
        /\ procs[p].failedFetch[1].after.tp.attempts = procs[p].failedFetch[1].before.tp.attempts + 1
        /\ procs[p].tpCounters.invocations > procs[p].failedFetch[1].after.tp.invocations

\* C15: every sample the invocation loop appended to the sample buffer
\* carries a beforeInvocation timestamp bi, whether the invocation succeeded
\* or failed, for action and for rule activity.
C15_SamplesCarryBi ==
    \A p \in Procs : \A i \in 1 .. Len(procs[p].sampleData) :
        procs[p].sampleData[i].bi # Undefined

\* C16: in master-apart mode, for every latency metric the master's
\* accumulator holds a contribution for, computeLatStats returns a defined
\* average, the master's sum over the master's invocations count, and the
\* master's min and max.
C16_MasterApartLatStats ==
    (procs[Master].output # <<>> /\ input.master_apart) =>
        LET own == procs[Master].workerData[Master][1]
            out == procs[Master].output[1]
        IN \A m \in Metrics :
              own.lat[m].sum # Undefined =>
                  /\ out.lat[m].avg = <<[num |-> own.lat[m].sum, den |-> own.tp.invocations]>>
                  /\ out.lat[m].min = own.lat[m].min
                  /\ out.lat[m].max = own.lat[m].max

\* The sum of counter c over the summaries of the processes in S
RECURSIVE sumOver(_, _)
sumOver(S, c) ==
    IF S = {} THEN 0
    ELSE LET q == CHOOSE q \in S : TRUE
         IN procs[Master].workerData[q][1].tp[c] + sumOver(S \ {q}, c)

\* C17: for each of attempts, invocations, activations and requests,
\* computeTpStats reports abs as the sum of the counter over all processes,
\* and the count behind tpw is the sum over the workers only, in uniform and
\* in master-apart mode.
C17_TpStats ==
    procs[Master].output # <<>> =>
        \A c \in TpNames :
            LET out == procs[Master].output[1].tp[c] IN
            /\ out.abs = sumOver(Procs, c)
            /\ out.tp = [num |-> sumOver(Procs, c) * 1000, den |-> PPWindow.stop - PPWindow.start]
            /\ out.tpw = [num |-> sumOver(Workers, c) * 1000, den |-> PPWindow.stop - PPWindow.start]
            /\ sumOver(Workers, c) = out.abs - procs[Master].workerData[Master][1].tp[c]

\* Master and worker have both counted, in master-apart mode
C17_Witness ==
    /\ input.workers = 2
    /\ input.master_apart
    /\ procs[Master].output # <<>>
    /\ procs[Master].output[1].tp["requests"].abs = 2
    /\ procs[Master].output[1].tp["requests"].tpw.num = 1000

\* C18: in rule activity a trigger sample whose activation lists k outcomes
\* of bound actions, f of them failed, is expanded into exactly k derived
\* samples, each with the trigger sample's bi and trigger start and with
\* exactly one of an action activation id and an action error; when bi is in
\* the window, the derived samples add exactly f to errors and to invocations
\* the number of successful ones whose activation lies in the window, at
\* most k - f.
C18_RuleExpansion ==
    \A p \in Procs :
        procs[p].expansion # <<>> =>
            LET e == procs[p].expansion[1]
                k == Len(e.logs)
                f == Cardinality({i \in 1 .. k : ~e.logs[i]})
                bi == e.trigger.bi
            IN /\ Len(e.derived) = k
               /\ \A i \in 1 .. k :
                     /\ e.derived[i].bi = bi
                     /\ e.derived[i].ts = e.ts
                     /\ e.derived[i].taid = e.trigger.taid
                     /\ Truthy(e.derived[i].aaid) <=> e.logs[i]
                     /\ Truthy(e.derived[i].aaidError) <=> ~e.logs[i]
               /\ (e.after # <<>> /\ bi >= PPWindow.start /\ bi <= PPWindow.stop) =>
                     /\ e.after[1].tp.errors = e.before.tp.errors + f
                     /\ e.after[1].tp.attempts = e.before.tp.attempts + k
                     /\ e.after[1].tp.invocations = e.before.tp.invocations + e.inWindow
                     /\ e.inWindow <= k - f

\* Two bound actions, one failed and one completed inside the window
C18_Witness ==
    \E p \in Procs :
        /\ procs[p].expansion # <<>>
        /\ procs[p].expansion[1].after # <<>>
        /\ procs[p].expansion[1].logs \in {<<TRUE, FALSE>>, <<FALSE, TRUE>>}
        /\ procs[p].expansion[1].inWindow = 1
        /\ procs[p].tpCounters.errors = 1
        /\ procs[p].tpCounters.invocations = 1

\* The run of one process with an iteration cap, no period, actions invoked
\* without blocking, whose loop has ended
CappedRunEnded ==
    /\ input.workers = 1
    /\ input.iterations > 0
    /\ input.period = 0
    /\ input.activity = kACTION
    /\ input.blocking = kNONE
    /\ procs[Master].loopEnd # Undefined

\* C19 as stated: with an iteration cap N and no period, one process, ratio r,
\* action activity and blocking none, the sample buffer holds exactly N * r
\* samples when the loop has stopped.
C19_BufferIsCap ==
    CappedRunEnded => Len(procs[Master].sampleData) = input.iterations * input.ratio

\* C19 amended: the buffer then holds the samples of the warmup iterations
\* and of the N iterations, (warmup + N) * r, that is N * r when warmup is 0.
C19_BufferIsWarmupAndCap ==
    CappedRunEnded =>
        Len(procs[Master].sampleData) = (input.warmup + input.iterations) * input.ratio

C19_Witness ==
    /\ CappedRunEnded
    /\ input.warmup = 1
    /\ input.ratio = 2
    /\ Len(procs[Master].sampleData) = 4

\* C20: postProcess run a second time over the same sample buffer, with the
\* same activation records and the same window, leaves the counters as the
\* first run left them.
C20_RerunSameCounters ==
    \A p \in Procs :
        procs[p].pc = "rerun" =>
            /\ procs[p].tpCounters = procs[p].firstRun[1].tp
            /\ procs[p].latCounters = procs[p].firstRun[1].lat

\* The accumulators after the values vals were contributed to one statistic
RECURSIVE accumulate(_, _, _)
accumulate(lat, statName, vals) ==
    IF vals = <<>> THEN lat
    ELSE accumulate(updateLatSample(lat, statName, Head(vals)), statName, Tail(vals))

\* The values contributed in the processes of S, in the order of the processes
RECURSIVE allContributed(_)
allContributed(S) ==
    IF S = {} THEN <<>>
    ELSE LET q == CHOOSE q \in S : \A r \in S : q <= r
         IN procs[q].contributed \o allContributed(S \ {q})

AllSummarised == \A q \in Procs : procs[Master].workerData[q] # <<>>

\* C21: in uniform mode the merged sum, sumSqr, min and max of a statistic
\* depend only on the values contributed, not on their partition among the
\* processes: they are those of one process that all the values were
\* contributed to.
C21_MergeIgnoresPartition ==
    AllSummarised =>
        LET wd == [q \in Procs |-> procs[Master].workerData[q][1]]
            all == allContributed(Procs)
            one == [q \in {Master} |->
                      [lat |-> accumulate(latCounters, MergeStat, all),
                       tp |-> [tpCounters EXCEPT !.invocations = Len(all)]]]
            merged == mergeLat(wd, MergeStat, 0, LatZero)
            whole == mergeLat(one, MergeStat, 0, LatZero)
        IN /\ merged.totalSum = whole.totalSum
           /\ merged.totalSumSqr = whole.totalSumSqr
           /\ merged.min = whole.min
           /\ merged.max = whole.max

\* C22: for every latency statistic with a contributing sample, the reported
\* statistics satisfy min <= avg <= max, that is min * n <= sum <= max * n
\* with n the invocations count the sum is divided by, the value 0 included.
C22_AvgBetweenMinMax ==
    procs[Master].output # <<>> =>
        \A m \in Metrics :
            LET out == procs[Master].output[1].lat[m] IN
            out.avg # <<>> =>
                /\ out.min * out.avg[1].den <= out.avg[1].num
                /\ out.avg[1].num <= out.max * out.avg[1].den

\* C23: when test setup fails the master ends at once with the exit status
\* of a setup failure: no worker is forked, no invocation is issued, no
\* sample is stored or classified and no output is generated.
C23_SetupFailureFatal ==
    procs[Master].exitCode = kSetupFailure =>
        /\ procs[Master].pc = "exited"
        /\ ~procs[Master].forked
        /\ procs[Master].generated = 0
        /\ procs[Master].computed = 0
        /\ \A w \in Workers : procs[w].pc = "starting" /\ toMaster[w] = <<>> /\ toWorker[w] = <<>>
        /\ \A p \in Procs :
              /\ procs[p].iterationsStarted = 0
              /\ procs[p].sampleData = <<>>
              /\ procs[p].tpCounters = tpCounters
        /\ kSetupFailure \notin {0, kTeardownFailure}

\* Setup has failed in a run configured with two processes
C23_Witness ==
    /\ input.workers = 2
    /\ procs[Master].exitCode = kSetupFailure
    /\ procs[Master].pc = "exited"

\* C24: when the insert of a per-sample row keeps failing, the call made by
\* processSample retries it: a row that is given up was attempted more than
\* once and at most kSqlRetries times.
C24_InsertRetried ==
    \A p \in Procs : \A i \in 1 .. Len(procs[p].sqlLog) :
        ~procs[p].sqlLog[i].stored =>
            /\ procs[p].sqlLog[i].attempts > 1
            /\ procs[p].sqlLog[i].attempts <= kSqlRetries

ErrorSample(sample) == Truthy(sample.aaidError) \/ Truthy(sample.taidError)

\* C25: a failed invocation does not end the loop: it yields an error-tagged
\* sample, and a loop whose abort flag is not set goes on.  The loop returns
\* only with abort set by abortLoop, which a worker calls only in the handler
\* of the master's abort message (its iteration countdown stays at -1), and
\* the master only from the period timer or when the countdown is at zero.
C25_LoopEndsByAbortOnly ==
    /\ [][\A p \in Procs :
            /\ (procs[p].loopEnd = Undefined /\ procs'[p].loopEnd # Undefined) =>
                  procs'[p].abort /\ procs'[p].abortCalls >= 1
            /\ (procs[p].pc \in {"invoking", "sleeping"} /\ ~procs'[p].abort /\ ~procs'[p].killed) =>
                  procs'[p].pc \in {"invoking", "sleeping"}
            /\ Len(procs'[p].sampleData) # Len(procs[p].sampleData) =>
                  /\ procs[p].pc = "invoking"
                  /\ Len(procs'[p].sampleData) = Len(procs[p].sampleData) + perIteration(p)
            /\ (p # Master /\ procs'[p].abortCalls # procs[p].abortCalls) =>
                  /\ toWorker[p] # <<>>
                  /\ toWorker'[p] = Tail(toWorker[p])
                  /\ procs'[p].measurementTime = Head(toWorker[p]).abort
            /\ (p = Master /\ procs'[p].abortCalls # procs[p].abortCalls) =>
                  \/ /\ input.period # 0
                     /\ procs[p].periodTimer # <<>>
                     /\ procs'[p].periodTimer = <<>>
                  \/ /\ input.iterations # 0
                     /\ procs'[p].remainingIterations = 0]_vars
    /\ [](\A w \in Workers : procs[w].remainingIterations = -1)
    /\ [](\A p \in Procs : \A i \in 1 .. Len(procs[p].sampleData) :
            LET sample == procs[p].sampleData[i] IN
            ErrorSample(sample) <=> ~(Truthy(sample.aaid) \/ Truthy(sample.taid)))

\* A worker went on after a failed invocation, until the abort message came
C25_Witness ==
    \E w \in Workers :
        /\ Len(procs[w].sampleData) >= 2
        /\ ErrorSample(procs[w].sampleData[1])
        /\ procs[w].loopEnd # Undefined
        /\ procs[w].abortCalls = 1
        /\ procs[Master].abortCalls = 1

\* The run has an iteration cap and no period
CappedRun == input.iterations # 0 /\ input.period = 0

\* Iterations the master has started since the init barrier completed
startedSinceInit == procs[Master].iterationsStarted - procs[Master].initAt

\* C26: with an iteration cap N and no period, remainingIterations is -1
\* until the init barrier completes and N at its completion; it then counts
\* the iterations the master starts, and the master's loop ends when exactly
\* N iterations were started after the completion of the barrier, whether
\* the master's own report or a worker's message completed it.
C26_CapCountsFromInit ==
    CappedRun =>
        /\ procs[Master].remainingInits > 0 =>
              /\ procs[Master].remainingIterations = -1
              /\ procs[Master].initAt = Undefined
              /\ procs[Master].loopEnd = Undefined
        /\ procs[Master].remainingInits = 0 =>
              /\ procs[Master].remainingIterations = input.iterations - startedSinceInit
              /\ procs[Master].remainingIterations >= 0
              /\ procs[Master].initAt >= input.warmup
        /\ procs[Master].loopEnd # Undefined =>
              /\ procs[Master].remainingInits = 0
              /\ startedSinceInit = input.iterations
              /\ procs[Master].abort

\* The barrier was completed by the worker's message while an iteration of
\* the master was in flight, and the master's loop has ended
C26_Witness ==
    /\ CappedRun
    /\ input.workers = 2
    /\ procs[Master].initAt > input.warmup
    /\ procs[Master].loopEnd # Undefined
    /\ procs[Master].iterationsStarted = procs[Master].initAt + input.iterations

\* Init messages of worker w the master has not handled yet
pendingInits(w) ==
    Cardinality({i \in 1 .. Len(toMaster[w]) : Truthy(toMaster[w][i].init)})

RECURSIVE reportsOf(_)
reportsOf(S) ==
    IF S = {} THEN 0
    ELSE LET q == CHOOSE q \in S : TRUE
         IN procs[q].readyReports - (IF q = Master THEN 0 ELSE pendingInits(q))
            + reportsOf(S \ {q})

\* C27: each process reports ready at most once, at the start of the loop
\* pass that follows its warmup-th completed iteration, and has reported
\* once its loop has ended; the warmup countdown goes from warmup down to -1,
\* where it stays, and the init barrier counts each report once.
C27_ReadyOnce ==
    /\ \A p \in Procs :
          /\ procs[p].readyReports <= 1
          /\ procs[p].warmupCounter >= -1
          /\ procs[p].readyReports = 1 <=> procs[p].warmupCounter = -1
          /\ procs[p].readyReports = 0 =>
                procs[p].warmupCounter = input.warmup - procs[p].iterationsStarted
          /\ procs[p].readyReports = 1 =>
                /\ procs[p].readyAt[1].started = input.warmup
                /\ procs[p].readyAt[1].stored = input.warmup * perIteration(p)
                /\ procs[p].iterationsStarted >= input.warmup
          /\ procs[p].loopEnd # Undefined => procs[p].readyReports = 1
    /\ procs[Master].remainingInits = input.workers - reportsOf(Procs)

\* After its warmup iteration the master reported once, started a further
\* iteration, passed the top of the loop again and ended the loop
C27_Witness ==
    /\ input.warmup = 1
    /\ input.workers = 2
    /\ procs[Master].readyReports = 1
    /\ procs[Master].iterationsStarted >= 3
    /\ procs[Master].loopEnd # Undefined
    /\ \E w \in Workers : procs[w].readyReports = 1 /\ procs[w].loopEnd # Undefined

\* start <= v <= stop, for a value that is defined
InWindow(v, mt) == v # Undefined /\ mt.start <= v /\ v <= mt.stop

\* In this step process p classifies one sample: the sample, the activation
\* record it is classified with, and the change of each throughput counter
Classifies(p) == Len(procs'[p].classified) = Len(procs[p].classified) + 1

lastClassified(p) == procs'[p].classified[Len(procs'[p].classified)]

tpDelta(p) ==
    [c \in DOMAIN tpCounters |-> procs'[p].tpCounters[c] - procs[p].tpCounters[c]]

C29_RuleLegsCounted ==
    [][\A p \in Procs :
        (/\ Classifies(p)
         /\ Truthy(lastClassified(p).sample.taid)
         /\ InWindow(lastClassified(p).sample.bi, procs[p].measurementTime)
         /\ InWindow(lastClassified(p).sample.ts, procs[p].measurementTime)) =>
            LET e == lastClassified(p) IN
            /\ Truthy(e.sample.aaidError) =>
                  tpDelta(p) = [attempts |-> 1, invocations |-> 0, activations |-> 1,
                                requests |-> 2, errors |-> 1]
            /\ (/\ ~Truthy(e.sample.aaidError)
                /\ e.activation # <<>>
                /\ InWindow(e.activation[1].start, procs[p].measurementTime)
                /\ InWindow(e.activation[1].end, procs[p].measurementTime)) =>
                  tpDelta(p) = [attempts |-> 1, invocations |-> 1, activations |-> 2,
                                requests |-> 2, errors |-> 0]]_vars

\* A trigger with two bound actions, all timestamps in the window: the first
\* action completed, the second failed
C29_Witness ==
    \E p \in Procs :
        /\ Len(procs[p].classified) = 2
        /\ \A i \in 1 .. 2 :
              /\ Truthy(procs[p].classified[i].sample.taid)
              /\ InWindow(procs[p].classified[i].sample.bi, PPWindow)
              /\ InWindow(procs[p].classified[i].sample.ts, PPWindow)
        /\ procs[p].classified[1].activation # <<>>
        /\ Truthy(procs[p].classified[2].sample.aaidError)
        /\ procs[p].tpCounters = [attempts |-> 2, invocations |-> 1, activations |-> 3,
                                  requests |-> 4, errors |-> 1]

\* C30: every sample counted in invocations has an activation whose start
\* and end both lie in [start, stop], bounds included; a sample whose
\* activation has its start or its end outside the window changes neither
\* invocations nor any latency accumulator.
C30_ActivationInWindow ==
    [][\A p \in Procs :
        Classifies(p) =>
            LET e == lastClassified(p)
                inside == /\ e.activation # <<>>
                          /\ InWindow(e.activation[1].start, procs[p].measurementTime)
                          /\ InWindow(e.activation[1].end, procs[p].measurementTime)
            IN /\ tpDelta(p).invocations \in {0, 1}
               /\ tpDelta(p).invocations = 1 => inside
               /\ ~inside =>
                     /\ tpDelta(p).invocations = 0
                     /\ procs'[p].latCounters = procs[p].latCounters]_vars

\* An activation from start to stop was counted; one that starts at stop and
\* ends after it was discarded
C30_Witness ==
    \E p \in Procs :
        /\ Len(procs[p].classified) = 2
        /\ procs[p].classified[1].activation # <<>>
        /\ procs[p].classified[1].activation[1].start = PPWindow.start
        /\ procs[p].classified[1].activation[1].end = PPWindow.stop
        /\ procs[p].classified[2].activation # <<>>
        /\ procs[p].classified[2].activation[1].start = PPWindow.stop
        /\ procs[p].classified[2].activation[1].end > PPWindow.stop
        /\ InWindow(procs[p].classified[2].sample.bi, PPWindow)
        /\ procs[p].tpCounters.invocations = 1
        /\ procs[p].tpCounters.attempts = 2

\* The accumulator no value was ever contributed to
NoLat == [sum |-> Undefined, sumSqr |-> Undefined, min |-> Undefined, max |-> Undefined]

\* C31: a metric that is not computed for a sample leaves its accumulator
\* unchanged: ta for a sample without trigger start, and ora, rtt and ortt
\* for a sample without afterInvocation; while no sample with a trigger
\* start was classified the accumulator of ta is undefined, and so are those
\* of ora, rtt and ortt while no sample with afterInvocation was classified.
C31_UncomputedMetricUntouched ==
    /\ [][\A p \in Procs :
            Classifies(p) =>
                /\ ~Truthy(lastClassified(p).sample.ts) =>
                      procs'[p].latCounters["ta"] = procs[p].latCounters["ta"]
                /\ ~Truthy(lastClassified(p).sample.ai) =>
                      \A m \in {"ora", "rtt", "ortt"} :
                          procs'[p].latCounters[m] = procs[p].latCounters[m]]_vars
    /\ [](\A p \in Procs :
            /\ (\A i \in 1 .. Len(procs[p].classified) : ~Truthy(procs[p].classified[i].sample.ts))
                  => procs[p].latCounters["ta"] = NoLat
            /\ (\A i \in 1 .. Len(procs[p].classified) : ~Truthy(procs[p].classified[i].sample.ai))
                  => \A m \in {"ora", "rtt", "ortt"} : procs[p].latCounters[m] = NoLat)

\* An action run without blocking: two full invocations were counted and
\* post-processing is over
C31_Witness ==
    \E p \in Procs :
        /\ input.activity = kACTION
        /\ procs[p].pc = "done"
        /\ Len(procs[p].classified) = 2
        /\ \A i \in 1 .. 2 : ~Truthy(procs[p].classified[i].sample.ai)
        /\ procs[p].tpCounters.invocations = 2
        /\ procs[p].latCounters["ad"].sum = 2
        /\ \A m \in {"ta", "ora", "rtt", "ortt"} : procs[p].latCounters[m] = NoLat

\* The values processSample computes for every full invocation
alwaysComputed(sample, activation) ==
    [d |-> activation.duration,
     ad |-> activation.end - activation.start,
     oea |-> activation.start - sample.bi]

\* C32: an accumulator is undefined exactly when no admitted sample has
\* contributed a value to it: it is undefined while no full invocation was
\* counted, and once a full invocation has a computed value v for a metric,
\* the value 0 included, sum, sumSqr, min and max of the metric are defined
\* and min <= v <= max.
C32_DefinedOnceContributed ==
    /\ [](\A p \in Procs :
            procs[p].tpCounters.invocations = 0 =>
                \A m \in Metrics : procs[p].latCounters[m] = NoLat)
    /\ [][\A p \in Procs :
            (Classifies(p) /\ tpDelta(p).invocations = 1) =>
                LET e == lastClassified(p)
                    v == alwaysComputed(e.sample, e.activation[1])
                IN \A m \in DOMAIN v :
                      LET c == procs'[p].latCounters[m] IN
                      /\ c.sum # Undefined
                      /\ c.sumSqr # Undefined
                      /\ c.min # Undefined
                      /\ c.max # Undefined
                      /\ c.min <= v[m]
                      /\ v[m] <= c.max]_vars

\* C33: processSample on a sample whose bi is smaller than start or larger
\* than stop leaves the five counters and all latency accumulators
\* unchanged, whatever error, trigger start or activation record it has.
C33_OutsideWindowDiscarded ==
    [][\A p \in Procs :
        (/\ Classifies(p)
         /\ lastClassified(p).sample.bi # Undefined
         /\ \/ lastClassified(p).sample.bi < procs[p].measurementTime.start
            \/ lastClassified(p).sample.bi > procs[p].measurementTime.stop) =>
            /\ procs'[p].tpCounters = procs[p].tpCounters
            /\ procs'[p].latCounters = procs[p].latCounters]_vars

\* Discarded: a derived sample with an action error invoked after stop, and
\* a sample invoked before start whose activation lies in the window
C33_Witness ==
    \E p \in Procs :
        /\ Len(procs[p].classified) = 2
        /\ procs[p].classified[1].sample.bi = PPWindow.stop + 1
        /\ Truthy(procs[p].classified[1].sample.aaidError)
        /\ InWindow(procs[p].classified[1].sample.ts, PPWindow)
        /\ procs[p].classified[2].sample.bi = PPWindow.start - 1
        /\ procs[p].classified[2].activation # <<>>
        /\ InWindow(procs[p].classified[2].activation[1].start, PPWindow)
        /\ InWindow(procs[p].classified[2].activation[1].end, PPWindow)
        /\ procs[p].tpCounters = tpCounters
        /\ procs[p].latCounters = latCounters

\* C34: during post-processing a process has at most one activation fetch
\* outstanding: while it post-processes exactly one fetch is out, the next
\* sample of the buffer is fetched only after every derived sample of the
\* previous trigger has been classified, and the derived samples of a trigger
\* are taken from the front of the list, in outcome order.
isSuffix(a, b) ==
    /\ Len(a) <= Len(b)
    /\ a = SubSeq(b, Len(b) - Len(a) + 1, Len(b))

C34_OneFetchOutstanding ==
    /\ [](\A p \in Procs :
            /\ procs[p].outstanding \in {0, 1}
            /\ procs[p].pc = "postProcess" => procs[p].outstanding = 1)
    /\ [][\A p \in Procs :
            (/\ procs[p].pc = "postProcess"
             /\ procs'[p].pc = "postProcess"
             /\ <<procs'[p].ppIndex, procs'[p].actionSamples>> #
                    <<procs[p].ppIndex, procs[p].actionSamples>>) =>
                /\ procs'[p].ppIndex >= procs[p].ppIndex
                /\ procs[p].actionSamples # <<>> =>
                        /\ isSuffix(procs'[p].actionSamples, Tail(procs[p].actionSamples))
                        /\ procs'[p].actionSamples # <<>> =>
                                procs'[p].ppIndex = procs[p].ppIndex
                /\ procs'[p].ppIndex > procs[p].ppIndex =>
                        \/ procs[p].actionSamples = <<>>
                        \/ procs'[p].actionSamples = <<>>]_vars

\* A process has classified a fetched sample and waits for the fetch of the
\* second sample of its buffer
C34_Witness ==
    \E p \in Procs :
        /\ procs[p].pc = "postProcess"
        /\ procs[p].outstanding = 1
        /\ procs[p].ppIndex = 2
        /\ procs[p].tpCounters.activations >= 1

\* C35: whenever measurementTime.stop is set at the coordinator, start is set
\* and start <= stop.
C35_StartBeforeStop ==
    Window(Master).stop # Unset =>
        /\ Window(Master).start # Unset
        /\ Window(Master).start <= Window(Master).stop

\* The coordinator has set the stop of the window of a run with workers, the
\* clock having advanced since the barrier completed
C35_Witness ==
    /\ input.workers > 1
    /\ Window(Master).stop # Unset
    /\ Window(Master).start < Window(Master).stop

\* C36: whenever a worker runs postProcess, its measurementTime has start and
\* stop both different from -1.
C36_WorkerWindowSet ==
    \A w \in Workers :
        (procs[w].pc = "postProcess" \/ procs[w].ppStart # Undefined) =>
            /\ Window(w).start # Unset
            /\ Window(w).stop # Unset

\* A worker with a stored sample post-processes, with the window the
\* coordinator has
C36_Witness ==
    \E w \in Workers :
        /\ procs[w].pc = "postProcess"
        /\ procs[w].sampleData # <<>>
        /\ Window(w) = Window(Master)
        /\ Window(w).start # Unset

\* C37: in every state reached during post-processing of a process,
\* requests = activations + errors for that process's counters.
C37_RequestsBalance ==
    \A p \in Procs :
        procs[p].tpCounters.requests =
            procs[p].tpCounters.activations + procs[p].tpCounters.errors

\* A process has classified a rule sample whose trigger leg was counted and
\* whose action failed, and a sample that ended as a full invocation
C37_Witness ==
    \E p \in Procs :
        /\ procs[p].pc = "postProcess"
        /\ procs[p].tpCounters.errors >= 1
        /\ procs[p].tpCounters.invocations >= 1
        /\ procs[p].tpCounters.activations >= 3

\* C38: in every state reached during post-processing of a process,
\* errors + invocations <= attempts, and invocations <= activations.
C38_OutcomesWithinAttempts ==
    \A p \in Procs :
        /\ procs[p].tpCounters.errors + procs[p].tpCounters.invocations
               <= procs[p].tpCounters.attempts
        /\ procs[p].tpCounters.invocations <= procs[p].tpCounters.activations

\* A process has classified a trigger error, and an admitted sample that
\* ended as neither an error nor a full invocation
C38_Witness ==
    \E p \in Procs :
        /\ procs[p].pc = "postProcess"
        /\ \E i \in 1 .. Len(procs[p].classified) :
               Truthy(procs[p].classified[i].sample.taidError)
        /\ procs[p].tpCounters.errors = 1
        /\ procs[p].tpCounters.invocations = 0
        /\ procs[p].tpCounters.attempts = 2

\* The number of leading samples of the buffer of p that are known to come
\* from iterations started before the init barrier completed: at the master,
\* those of the iterations started when checkInit reached zero (its iteration
\* in flight included); at a worker, those stored before it reported ready
earlySamples(p) ==
    IF p = Master
    THEN IF procs[p].initAt = Undefined THEN Len(procs[p].sampleData)
         ELSE procs[p].initAt * perIteration(p)
    ELSE IF procs[p].readyAt = <<>> THEN Len(procs[p].sampleData)
         ELSE procs[p].readyAt[1].stored

\* C39: no sample of an iteration that started before the init barrier
\* completed is counted: a step of post-processing that has got no further
\* than those samples changes no counter. Stated for the samples that carry
\* a bi, which are the ones the window test can tell apart.
C39_EarlySamplesUncounted ==
    [][\A p \in Procs :
        (/\ procs'[p].ppIndex - 1 <= earlySamples(p)
         /\ \A i \in 1 .. (procs'[p].ppIndex - 1) :
                procs[p].sampleData[i].bi # Undefined) =>
            /\ procs'[p].tpCounters = procs[p].tpCounters
            /\ procs'[p].latCounters = procs[p].latCounters]_vars

\* C40: in rule activity, a trigger that was fired successfully inside the
\* window and whose fetched activation lists zero bound-action outcomes
\* contributes to no counter: the step that expands it changes no counter,
\* attempts and requests included, and leaves no sample of it to classify.
C40_EmptyTriggerUncounted ==
    [][\A p \in Procs :
        (/\ procs'[p].expansion # procs[p].expansion
         /\ procs'[p].expansion # <<>>
         /\ procs'[p].expansion[1].logs = <<>>
         /\ InWindow(procs'[p].expansion[1].trigger.bi, procs[p].measurementTime)) =>
            /\ procs'[p].tpCounters = procs[p].tpCounters
            /\ procs'[p].latCounters = procs[p].latCounters
            /\ procs'[p].actionSamples = <<>>]_vars

\* After a sample that was counted, a trigger fired inside the window, with
\* its activation started inside the window, was expanded into no sample
C40_Witness ==
    \E p \in Procs :
        /\ input.activity = kRULE
        /\ procs[p].expansion # <<>>
        /\ procs[p].expansion[1].logs = <<>>
        /\ Truthy(procs[p].expansion[1].trigger.taid)
        /\ InWindow(procs[p].expansion[1].trigger.bi, procs[p].measurementTime)
        /\ InWindow(procs[p].expansion[1].ts, procs[p].measurementTime)
        /\ procs[p].actionSamples = <<>>
        /\ procs[p].tpCounters.attempts = 1
        /\ procs[p].tpCounters = procs[p].expansion[1].before.tp
====
